---------------------------- MODULE Spec2Model ----------------------------
(***************************************************************************)
(* Model of the MCP Level 1 extended artifact validator                    *)
(*   src/00-namespaces/namespaces-mcp/level1/validation/extended-validator.py*)
(*   src/00-namespaces/namespaces-mcp/level1/tools/validator.py            *)
(*                                                                         *)
(* One ExtendedMCPValidator is constructed (Init) and then                 *)
(* validate_artifact_extended is called on it any number of times.  The    *)
(* only mutable state of the validator is the dependency graph held by its *)
(* DependencyValidator; the registry is fixed at construction.             *)
(*                                                                         *)
(* Conventions.                                                            *)
(*  - A string taken from a document is a tuple of one-character strings,  *)
(*    so that the regular expressions of the code are computed, not        *)
(*    tabulated.  Map keys are plain TLA+ strings.                         *)
(*  - An optional value is a tuple of length 0 (absent) or 1 (present).    *)
(*  - A message is a record: its code is the text of the Python format     *)
(*    string, the other fields are the values formatted into it.           *)
(*  - A call that ends in an uncaught Python exception is an outcome of    *)
(*    kind "raised" that carries the exception's type.                     *)
(*  - Documents are maps whose metadata, when present, is a map, whose     *)
(*    namingRegistry is a map and whose dependsOn entries are maps; the    *)
(*    schema path is not given (MCPValidator.schema is None) and           *)
(*    validate_endpoints keeps its default False.                          *)
(***************************************************************************)
EXTENDS Integers, Sequences, FiniteSets, TLC

VARIABLES
  graph,      \* DependencyValidator.dependency_graph: [nodes, edges]
  registry,   \* ExtendedMCPValidator.artifact_registry: the set of its keys
  last        \* the last validate_artifact_extended call: input and outcome

vars == <<graph, registry, last>>

---------------------------------------------------------------------------
(* Strings and optional values *)

None == << >>
Some(x) == <<x>>
IsSome(o) == Len(o) = 1
Get(o) == o[1]

Lower == {"a","b","c","d","e","f","g","h","i","j","k","l","m",
          "n","o","p","q","r","s","t","u","v","w","x","y","z"}
Upper == {"A","B","C","D","E","F","G","H","I","J","K","L","M",
          "N","O","P","Q","R","S","T","U","V","W","X","Y","Z"}
Digit == {"0","1","2","3","4","5","6","7","8","9"}

AllIn(s, C) == \A i \in 1..Len(s) : s[i] \in C
\* X+ for a character class X
Plus(s, C) == Len(s) >= 1 /\ AllIn(s, C)

\* Python's $ matches at the end of the string and before a newline that ends it.
DollarForms(s) ==
  {s} \cup (IF Len(s) >= 1 /\ s[Len(s)] = "\n" THEN {SubSeq(s, 1, Len(s) - 1)} ELSE {})

\* \d+\.\d+\.\d+ on the whole of s
IsThreePart(s) ==
  \E i \in 1..Len(s) : \E j \in (i+1)..Len(s) :
     /\ s[i] = "." /\ s[j] = "."
     /\ Plus(SubSeq(s, 1, i-1), Digit)
     /\ Plus(SubSeq(s, i+1, j-1), Digit)
     /\ Plus(SubSeq(s, j+1, Len(s)), Digit)

\* r'^\d+\.\d+\.\d+$'
MatchSemver(s) == \E t \in DollarForms(s) : IsThreePart(t)

\* r'^\d+\.\d+\.\d+<sep>[a-zA-Z0-9-]+$'
MatchSuffixed(s, sep) ==
  \E t \in DollarForms(s) : \E k \in 1..Len(t) :
     /\ t[k] = sep
     /\ IsThreePart(SubSeq(t, 1, k-1))
     /\ Plus(SubSeq(t, k+1, Len(t)), Lower \cup Upper \cup Digit \cup {"-"})

\* r'^<prefix>\d+\.\d+\.\d+$' for a literal prefix
MatchPrefixed(s, prefix) ==
  /\ Len(s) >= Len(prefix)
  /\ SubSeq(s, 1, Len(prefix)) = prefix
  /\ MatchSemver(SubSeq(s, Len(prefix) + 1, Len(s)))

\* r'^[a-z0-9.-]+/[a-z0-9-]+$'
MatchNamespacedName(s) ==
  \E t \in DollarForms(s) : \E k \in 1..Len(t) :
     /\ t[k] = "/"
     /\ Plus(SubSeq(t, 1, k-1), Lower \cup Digit \cup {".", "-"})
     /\ Plus(SubSeq(t, k+1, Len(t)), Lower \cup Digit \cup {"-"})

\* r'^[a-z0-9.-]+/[a-z0-9-]+:\d+\.\d+\.\d+$'
MatchVersionedReference(s) ==
  \E t \in DollarForms(s) : \E k \in 1..Len(t) :
     /\ t[k] = ":"
     /\ LET n == SubSeq(t, 1, k-1)
        IN \E m \in 1..Len(n) :
             /\ n[m] = "/"
             /\ Plus(SubSeq(n, 1, m-1), Lower \cup Digit \cup {".", "-"})
             /\ Plus(SubSeq(n, m+1, Len(n)), Lower \cup Digit \cup {"-"})
     /\ IsThreePart(SubSeq(t, k+1, Len(t)))

\* [a-z0-9]+([.-][a-z0-9]+)* on the whole of s
IsLabels(s) ==
  /\ Len(s) >= 1
  /\ AllIn(s, Lower \cup Digit \cup {".", "-"})
  /\ s[1] \notin {".", "-"}
  /\ s[Len(s)] \notin {".", "-"}
  /\ \A i \in 1..(Len(s) - 1) : ~(s[i] \in {".", "-"} /\ s[i+1] \in {".", "-"})

\* r'^<prefix>[a-z0-9]+([.-][a-z0-9]+)*$' for a literal prefix
MatchNamespace(s, prefix) ==
  \E t \in DollarForms(s) :
     /\ Len(t) >= Len(prefix)
     /\ SubSeq(t, 1, Len(prefix)) = prefix
     /\ IsLabels(SubSeq(t, Len(prefix) + 1, Len(t)))

---------------------------------------------------------------------------
(* The strings the documents of the model are built from *)

S_test_artifact == <<"t","e","s","t","-","a","r","t","i","f","a","c","t">>
S_a == <<"a">>
S_mcp == <<"m","c","p">>
S_unknown == <<"u","n","k","n","o","w","n">>
S_config == <<"c","o","n","f","i","g">>
S_1_0_0 == <<"1",".","0",".","0">>
S_1_0_0_rc1 == <<"1",".","0",".","0","-","r","c","1">>
S_1_0_0_b7 == <<"1",".","0",".","0","+","b","7">>
S_latest == <<"l","a","t","e","s","t">>
S_caret_1_0_0 == <<"^","1",".","0",".","0">>
S_reverse_DNS == <<"r","e","v","e","r","s","e","-","D","N","S">>
S_flat == <<"f","l","a","t">>
S_io_github_user == <<"i","o",".","g","i","t","h","u","b",".","u","s","e","r">>
S_invalid_namespace == <<"i","n","v","a","l","i","d","-","n","a","m","e","s","p","a","c","e">>
S_verified == <<"v","e","r","i","f","i","e","d">>
S_pending == <<"p","e","n","d","i","n","g">>
S_ns_cfg == <<"n","s","/","c","f","g">>
S_badref == <<"b","a","d","r","e","f">>
S_ns_cfg_1_0_0 == <<"n","s","/","c","f","g",":","1",".","0",".","0">>
S_ns_other == <<"n","s","/","o","t","h","e","r">>
S_tilde_1_0_0 == <<"~","1",".","0",".","0">>
S_ge_1_0_0 == <<">","=","1",".","0",".","0">>
S_le_1_0_0 == <<"<","=","1",".","0",".","0">>

T_manifest == <<"m","a","n","i","f","e","s","t">>
T_schema == <<"s","c","h","e","m","a">>
T_spec == <<"s","p","e","c">>
T_index == <<"i","n","d","e","x">>
T_taxonomy == <<"t","a","x","o","n","o","m","y">>
T_governance == <<"g","o","v","e","r","n","a","n","c","e">>
T_policy == <<"p","o","l","i","c","y">>
T_role == <<"r","o","l","e">>
T_toolchain == <<"t","o","o","l","c","h","a","i","n">>
T_documentation == <<"d","o","c","u","m","e","n","t","a","t","i","o","n">>
T_examples == <<"e","x","a","m","p","l","e","s">>
T_invalid_type == <<"i","n","v","a","l","i","d","-","t","y","p","e">>

---------------------------------------------------------------------------
(* Messages and sequences of them *)

Msg(code, idx, key, arg, arg2) ==
  [code |-> code, idx |-> idx, key |-> key, arg |-> arg, arg2 |-> arg2]
M0(code) == Msg(code, 0, "", << >>, << >>)
MKey(code, key) == Msg(code, 0, key, << >>, << >>)
MArg(code, arg) == Msg(code, 0, "", arg, << >>)
MIdx(code, idx) == Msg(code, idx, "", << >>, << >>)

When(cond, m) == IF cond THEN <<m>> ELSE << >>

RECURSIVE ConcatAll(_)
ConcatAll(ss) == IF ss = << >> THEN << >> ELSE Head(ss) \o ConcatAll(Tail(ss))

Range(s) == {s[i] : i \in 1..Len(s)}

---------------------------------------------------------------------------
(* Documents: what yaml.safe_load returns, or the failure to load *)

HasKey(a, k) == k \in a.keys
\* artifact.get("metadata", {}).get("name", "unknown")
NameOrUnknown(a) ==
  IF HasKey(a, "metadata") /\ IsSome(a.metadata.name)
  THEN Get(a.metadata.name) ELSE S_unknown

---------------------------------------------------------------------------
(* MCPValidator: the base validator (tools/validator.py) *)

\* lines 140-158 of tools/validator.py without the metadata loop (151-156)
_validate_structure_TopLevelOnly(a) ==
     When(~HasKey(a, "apiVersion"), MKey("Missing required field: {field}", "apiVersion"))
  \o When(~HasKey(a, "kind"), MKey("Missing required field: {field}", "kind"))
  \o When(~HasKey(a, "metadata"), MKey("Missing required field: {field}", "metadata"))

_validate_structure(a) ==
     When(~HasKey(a, "apiVersion"), MKey("Missing required field: {field}", "apiVersion"))
  \o When(~HasKey(a, "kind"), MKey("Missing required field: {field}", "kind"))
  \o When(~HasKey(a, "metadata"), MKey("Missing required field: {field}", "metadata"))
  \o (IF HasKey(a, "metadata")
      THEN    When(~IsSome(a.metadata.name),
                   MKey("Missing required metadata field: {field}", "name"))
           \o When(~IsSome(a.metadata.version),
                   MKey("Missing required metadata field: {field}", "version"))
           \o When(~IsSome(a.metadata.semanticType),
                   MKey("Missing required metadata field: {field}", "semanticType"))
      ELSE << >>)

\* returns (errors, warnings)
_validate_naming(a) ==
  IF ~HasKey(a, "metadata")
  THEN [errors |-> << >>, warnings |-> << >>]
  ELSE LET md == a.metadata IN
       [errors |->
             When(IsSome(md.name) /\ ~MatchNamespacedName(Get(md.name)),
                  MArg("Invalid name format: '{name}'. Must match pattern: namespace/artifact-name",
                       IF IsSome(md.name) THEN Get(md.name) ELSE << >>))
          \o When(IsSome(md.version) /\ ~MatchSemver(Get(md.version)),
                  MArg("Invalid version format: '{version}'. Must follow semantic versioning",
                       IF IsSome(md.version) THEN Get(md.version) ELSE << >>)),
        warnings |->
             When(IsSome(md.namingRegistry) /\ Get(md.namingRegistry).format # Some(S_reverse_DNS),
                  M0("Naming registry format should be 'reverse-DNS'"))]

_validate_dependencies(a) ==
  IF ~HasKey(a, "dependsOn") THEN << >>
  ELSE IF ~a.dependsOn.isList THEN <<M0("dependsOn must be an array")>>
  ELSE ConcatAll([i \in 1..Len(a.dependsOn.items) |->
         LET dep == a.dependsOn.items[i] IN
           IF dep.shape # "object"
           THEN <<MIdx("Dependency {i} must be an object", i - 1)>>
           ELSE    When(~IsSome(dep.artifact),
                        MIdx("Dependency {i} missing 'artifact' field", i - 1))
                \o When(~IsSome(dep.purpose),
                        MIdx("Dependency {i} missing 'purpose' field", i - 1))])

valid_types ==
  {T_manifest, T_schema, T_spec, T_index, T_taxonomy,
   T_governance, T_policy, T_role, T_toolchain, T_documentation}

_validate_semantic_type(a) ==
  IF ~HasKey(a, "metadata") THEN << >>
  ELSE IF ~IsSome(a.metadata.semanticType)
       THEN <<M0("Missing semanticType in metadata")>>
       ELSE When(Get(a.metadata.semanticType) \notin valid_types,
                 MArg("Invalid semanticType: '{semantic_type}'. Must be one of: ...",
                      Get(a.metadata.semanticType)))

\* lines 119-126 of tools/validator.py
DetermineStatus(errors, warnings, strict) ==
  IF errors # << >> THEN "failed"
  ELSE IF warnings # << >> /\ strict THEN "failed"
  ELSE IF warnings # << >> THEN "warning"
  ELSE "passed"

BasicResult(errors, warnings, strict) ==
  [status |-> DetermineStatus(errors, warnings, strict),
   errors |-> errors, warnings |-> warnings]

\* MCPValidator.validate_artifact on a document that loads; self.schema is None
validate_artifact(a, strict) ==
  BasicResult(   _validate_structure(a) \o _validate_naming(a).errors
              \o _validate_dependencies(a) \o _validate_semantic_type(a),
              _validate_naming(a).warnings, strict)

---------------------------------------------------------------------------
(* DependencyValidator (extended-validator.py 64-170) *)

EmptyGraph == [nodes |-> {}, edges |-> {}]

\* line 92 left out
add_node_Skipped(g, n) == g

add_node(g, n) == [g EXCEPT !.nodes = @ \cup {n}]

add_edge(g, u, v) == [nodes |-> g.nodes \cup {u, v}, edges |-> g.edges \cup {<<u, v>>}]

\* The result of evaluating nx.find_cycles(self.dependency_graph) at line 112.
\* networkx exports find_cycle and simple_cycles; it has no attribute
\* find_cycles, so the attribute lookup raises AttributeError before any
\* graph algorithm runs.
nx_find_cycles(g) == [raised |-> TRUE, exc |-> "AttributeError", value |-> << >>]

_is_valid_version_constraint(version) ==
  \/ MatchSemver(version)
  \/ MatchPrefixed(version, <<"^">>)
  \/ MatchPrefixed(version, <<"~">>)
  \/ MatchPrefixed(version, <<">", "=">>)
  \/ MatchPrefixed(version, <<"<", "=">>)

\* lines 137-142
MissingFieldErrors(dep, index) ==
     When(~IsSome(dep.artifact),
          Msg("Dependency {index} missing required field: {field}", index, "artifact", << >>, << >>))
  \o When(~IsSome(dep.purpose),
          Msg("Dependency {index} missing required field: {field}", index, "purpose", << >>, << >>))

\* lines 144-149
MissingFromRegistry(dep, reg) ==
  IF IsSome(dep.artifact) /\ reg # {} /\ Get(dep.artifact) \notin reg
  THEN <<Get(dep.artifact)>> ELSE << >>

\* lines 151-156
InvalidVersions(dep) ==
  IF IsSome(dep.version) /\ ~_is_valid_version_constraint(Get(dep.version))
  THEN <<Get(dep.version)>> ELSE << >>

SingleResult(errors, missing, invalid) ==
  [valid |-> errors = << >>,
   errors |-> errors,
   warnings |->
        [i \in 1..Len(missing) |->
           MArg("Dependency artifact not found in registry: {artifact_name}", missing[i])]
     \o [i \in 1..Len(invalid) |-> MArg("Invalid version constraint: {version}", invalid[i])],
   missing_dependencies |-> missing,
   invalid_versions |-> invalid]

\* lines 144-156 with the missing target and the invalid version treated as the
\* missing fields are: as errors
_validate_single_dependency_Strict(dep, index, reg) ==
  SingleResult(   MissingFieldErrors(dep, index)
               \o [i \in 1..Len(MissingFromRegistry(dep, reg)) |->
                     MArg("Dependency artifact not found in registry: {artifact_name}",
                          MissingFromRegistry(dep, reg)[i])]
               \o [i \in 1..Len(InvalidVersions(dep)) |->
                     MArg("Invalid version constraint: {version}", InvalidVersions(dep)[i])],
               MissingFromRegistry(dep, reg), InvalidVersions(dep))

\* index is the 0-based position of dep in dependsOn
_validate_single_dependency(dep, index, reg) ==
  IF dep.shape # "object"
  THEN SingleResult(<<MIdx("Dependency {index} must be an object", index)>>, << >>, << >>)
  ELSE SingleResult(MissingFieldErrors(dep, index), MissingFromRegistry(dep, reg),
                    InvalidVersions(dep))

DepResult(valid, errors, warnings, missing, invalid, cycles) ==
  [present |-> TRUE, valid |-> valid, errors |-> errors, warnings |-> warnings,
   missing_dependencies |-> missing, invalid_versions |-> invalid,
   circular_dependencies |-> cycles]

\* lines 94-101: the per-declaration results folded into the result, in order
FoldResults(rs) ==
  DepResult(\A i \in 1..Len(rs) : rs[i].valid,
            ConcatAll([i \in 1..Len(rs) |-> IF rs[i].valid THEN << >> ELSE rs[i].errors]),
            ConcatAll([i \in 1..Len(rs) |-> rs[i].warnings]),
            ConcatAll([i \in 1..Len(rs) |-> rs[i].missing_dependencies]),
            ConcatAll([i \in 1..Len(rs) |-> rs[i].invalid_versions]),
            << >>)

\* lines 94-108: one add_edge per declaration that carries an artifact field
RECURSIVE AddDependencyEdges(_, _, _)
AddDependencyEdges(g, name, deps) ==
  IF deps = << >> THEN g
  ELSE AddDependencyEdges(
         IF IsSome(Head(deps).artifact)
         THEN add_edge(g, name, Get(Head(deps).artifact)) ELSE g,
         name, Tail(deps))

\* sub in text, for strings
Contains(text, sub) ==
  \E i \in 1..Len(text) : i + Len(sub) - 1 <= Len(text) /\ SubSeq(text, i, i + Len(sub) - 1) = sub

\* `key in dep` followed by dep[key] (lines 104-107 and 310-311) on an entry
\* that is not a mapping: on a number the test itself raises TypeError; on a
\* string the test is a substring test, and when it succeeds the subscript
\* dep[key] raises TypeError
LookupRaises(dep, key) ==
  \/ dep.shape = "number"
  \/ dep.shape = "string" /\ Contains(dep.text, key)

S_artifact == <<"a","r","t","i","f","a","c","t">>
S_semanticType == <<"s","e","m","a","n","t","i","c","T","y","p","e">>

\* the position of the first entry on which line 104 or 107 raises, 0 if none
FirstRaising(deps) ==
  IF \E i \in 1..Len(deps) : LookupRaises(deps[i], S_artifact)
  THEN CHOOSE i \in 1..Len(deps) :
         /\ LookupRaises(deps[i], S_artifact)
         /\ \A j \in 1..(i - 1) : ~LookupRaises(deps[j], S_artifact)
  ELSE 0

\* the entries for which the body of the loop (95-108) ran to its end
EntriesDone(deps) ==
  IF FirstRaising(deps) = 0 THEN deps ELSE SubSeq(deps, 1, FirstRaising(deps) - 1)
\* the entries for which _validate_single_dependency was called (line 95)
EntriesValidated(deps) ==
  IF FirstRaising(deps) = 0 THEN deps ELSE SubSeq(deps, 1, FirstRaising(deps))

\* lines 92-108 on a graph that is built anew for the call
GraphAfterEdges_Rebuilt(a, g) ==
  AddDependencyEdges(add_node(EmptyGraph, NameOrUnknown(a)), NameOrUnknown(a),
                     EntriesDone(a.dependsOn.items))

\* The graph after lines 92-108 have run for artifact a
GraphAfterEdges(a, g) ==
  AddDependencyEdges(add_node(g, NameOrUnknown(a)), NameOrUnknown(a),
                     EntriesDone(a.dependsOn.items))

\* lines 94-101 for the entries reached
ResultsSoFar(deps, reg) ==
  FoldResults([i \in 1..Len(EntriesValidated(deps)) |->
                 _validate_single_dependency(deps[i], i - 1, reg)])

DepOutcome(raised, exc, g, result) ==
  [raised |-> raised, exc |-> exc, graph |-> g, result |-> result]

\* lines 110-120: the try block around nx.find_cycles.  r is the result built
\* so far, g2 the graph, fc what evaluating nx.find_cycles(g2) gives.
CheckCycles(r, g2, fc) ==
  IF fc.raised /\ fc.exc = "NetworkXError" THEN DepOutcome(FALSE, "", g2, r)
  ELSE IF fc.raised THEN DepOutcome(TRUE, fc.exc, g2, r)
  ELSE IF fc.value # << >>
  THEN DepOutcome(FALSE, "", g2,
         [r EXCEPT !.valid = FALSE,
                   !.circular_dependencies = fc.value,
                   !.errors = @ \o <<M0("Circular dependencies detected: {cycles}")>>])
  ELSE DepOutcome(FALSE, "", g2, r)

\* DependencyValidator.validate_dependencies: the outcome (a result, or the
\* exception that ends the call, with the result built until then) and the
\* graph the call leaves behind
validate_dependencies(a, g, reg) ==
  IF ~HasKey(a, "dependsOn")
  THEN DepOutcome(FALSE, "", g, DepResult(TRUE, << >>, << >>, << >>, << >>, << >>))
  ELSE IF ~a.dependsOn.isList
  THEN DepOutcome(FALSE, "", g,
         DepResult(FALSE, <<M0("dependsOn must be an array")>>, << >>, << >>, << >>, << >>))
  ELSE IF FirstRaising(a.dependsOn.items) # 0
  THEN DepOutcome(TRUE, "TypeError", GraphAfterEdges(a, g),
                  ResultsSoFar(a.dependsOn.items, reg))
  ELSE CheckCycles(
         ResultsSoFar(a.dependsOn.items, reg),
         GraphAfterEdges(a, g),
         nx_find_cycles(GraphAfterEdges(a, g)))

---------------------------------------------------------------------------
(* SemanticTypeValidator (extended-validator.py 172-317) *)

SchemaOf(required, optional, deps) ==
  [required_fields |-> required, optional_fields |-> optional, can_depend_on |-> deps]

\* _load_semantic_schemas
semantic_type_schemas ==
  (T_manifest :> SchemaOf(<<"apiVersion", "kind", "metadata", "spec">>,
                          {"dependsOn", "governance"},
                          {T_schema, T_spec, T_governance, T_policy})) @@
  (T_schema :> SchemaOf(<<"apiVersion", "kind", "metadata", "schema">>,
                        {"dependsOn"}, {T_manifest, T_governance})) @@
  (T_spec :> SchemaOf(<<"apiVersion", "kind", "metadata", "specification">>,
                      {"dependsOn", "examples"}, {T_manifest, T_schema, T_governance})) @@
  (T_governance :> SchemaOf(<<"apiVersion", "kind", "metadata", "policies">>,
                            {"dependsOn", "roles"}, {T_manifest})) @@
  (T_policy :> SchemaOf(<<"apiVersion", "kind", "metadata", "rules">>,
                        {"dependsOn"}, {T_manifest, T_governance})) @@
  (T_role :> SchemaOf(<<"apiVersion", "kind", "metadata", "permissions">>,
                      {"dependsOn"}, {T_manifest, T_governance, T_policy})) @@
  (T_toolchain :> SchemaOf(<<"apiVersion", "kind", "metadata", "tools">>,
                           {"dependsOn"}, {T_manifest, T_spec, T_schema})) @@
  (T_index :> SchemaOf(<<"apiVersion", "kind", "metadata", "artifacts">>,
                       {"dependsOn"}, {T_manifest, T_schema})) @@
  (T_documentation :> SchemaOf(<<"apiVersion", "kind", "metadata", "content">>,
                               {"dependsOn"}, {T_manifest, T_spec, T_examples}))

\* The order in which the documents of the model list their top-level keys
\* (the iteration order of the parsed dict)
KeyOrder == <<"apiVersion", "kind", "metadata", "spec", "schema", "dependsOn">>

\* lines 292-294
AllowedFields(schema) ==
  Range(schema.required_fields) \cup schema.optional_fields
    \cup {"apiVersion", "kind", "metadata", "dependsOn"}

\* lines 281-300 without the loop over the artifact's fields (296-298)
_validate_against_semantic_schema_RequiredOnly(a, t) ==
  ConcatAll([i \in 1..Len(semantic_type_schemas[t].required_fields) |->
     When(~HasKey(a, semantic_type_schemas[t].required_fields[i]),
          Msg("Missing required field for {semantic_type}: {field}", 0,
              semantic_type_schemas[t].required_fields[i], t, << >>))])

_validate_against_semantic_schema(a, t) ==
     ConcatAll([i \in 1..Len(semantic_type_schemas[t].required_fields) |->
        When(~HasKey(a, semantic_type_schemas[t].required_fields[i]),
             Msg("Missing required field for {semantic_type}: {field}", 0,
                 semantic_type_schemas[t].required_fields[i], t, << >>))])
  \o ConcatAll([i \in 1..Len(KeyOrder) |->
        When(HasKey(a, KeyOrder[i]) /\ KeyOrder[i] \notin AllowedFields(semantic_type_schemas[t]),
             Msg("Unexpected field for {semantic_type}: {field}", 0, KeyOrder[i], t, << >>))])

\* a dependsOn that is not a list is a scalar string in the model: iterating
\* it yields characters, none of which contains "semanticType"
_validate_semantic_relationships(a, t) ==
  IF ~HasKey(a, "dependsOn") \/ ~a.dependsOn.isList THEN << >>
  ELSE ConcatAll([i \in 1..Len(a.dependsOn.items) |->
         IF /\ IsSome(a.dependsOn.items[i].semanticType)
            /\ Get(a.dependsOn.items[i].semanticType) \notin semantic_type_schemas[t].can_depend_on
         THEN <<Msg("{semantic_type} cannot depend on {dep_type}. Allowed: ...", 0, "", t,
                    Get(a.dependsOn.items[i].semanticType))>>
         ELSE << >>])

\* raised: the call ended with exception exc instead of a result
SemResult(valid, errors, warnings, tv, rv) ==
  [present |-> TRUE, raised |-> FALSE, exc |-> "", valid |-> valid, errors |-> errors,
   warnings |-> warnings, type_violations |-> tv, relationship_violations |-> rv]
SemRaised(exc) ==
  [present |-> FALSE, raised |-> TRUE, exc |-> exc, valid |-> TRUE, errors |-> << >>,
   warnings |-> << >>, type_violations |-> << >>, relationship_violations |-> << >>]

\* lines 309-311 raise on an entry of the list
RelationshipsRaise(a) ==
  /\ HasKey(a, "dependsOn") /\ a.dependsOn.isList
  /\ \E i \in 1..Len(a.dependsOn.items) : LookupRaises(a.dependsOn.items[i], S_semanticType)

\* lines 202-217 with the relationship violations handled as the schema
\* violations are: added to errors, and making the result invalid
SemanticOutcome_ViolationsAreErrors(sv, rv) ==
  SemResult(sv \o rv = << >>, sv \o rv, << >>, sv, rv)

\* lines 202-217: sv the schema violations, rv the relationship violations
SemanticOutcome(sv, rv) == SemResult(sv = << >>, sv, rv, sv, rv)

validate_semantic_consistency(a) ==
  IF ~HasKey(a, "metadata") \/ ~IsSome(a.metadata.semanticType)
  THEN SemResult(FALSE, <<M0("Missing semanticType in metadata")>>, << >>, << >>, << >>)
  ELSE IF Get(a.metadata.semanticType) \notin DOMAIN semantic_type_schemas
  THEN SemResult(FALSE,
         <<MArg("Invalid semantic type: {semantic_type}", Get(a.metadata.semanticType))>>,
         << >>, << >>, << >>)
  ELSE IF RelationshipsRaise(a) THEN SemRaised("TypeError")
  ELSE SemanticOutcome(
         _validate_against_semantic_schema(a, Get(a.metadata.semanticType)),
         IF HasKey(a, "dependsOn")
         THEN _validate_semantic_relationships(a, Get(a.metadata.semanticType))
         ELSE << >>)

---------------------------------------------------------------------------
(* NamingSpecificationValidator (extended-validator.py 423-597) *)

Sub(valid, errors, warnings) ==
  [present |-> TRUE, valid |-> valid, errors |-> errors, warnings |-> warnings]
NoSub == [present |-> FALSE, valid |-> TRUE, errors |-> << >>, warnings |-> << >>]

\* naming_rules["namespace_formats"], in dict order: the literal prefix of each
\* pattern and its verification_required flag
namespace_formats ==
  << [prefix |-> <<"i","o",".","g","i","t","h","u","b",".">>, verification_required |-> TRUE],
     [prefix |-> <<"c","o","m",".">>, verification_required |-> TRUE],
     [prefix |-> <<"o","r","g",".">>, verification_required |-> TRUE] >>

\* the keys of naming_rules["artifact_patterns"] (lines 497-502)
artifact_patterns_keys == {"format", "max_length", "min_length", "reserved_words"}
max_length == 50
min_length == 3
reserved_words == {S_mcp,
                   <<"s","y","s","t","e","m">>, <<"c","o","r","e">>,
                   <<"a","p","i">>, <<"i","n","t","e","r","n","a","l">>}

\* r"^[a-z0-9-]+$", the value stored under "format"
MatchArtifactFormat(s) == \E t \in DollarForms(s) : Plus(t, Lower \cup Digit \cup {"-"})

\* the index of the first pattern of namespace_formats that matches, 0 if none
FirstMatch(namespace) ==
  IF \E i \in 1..Len(namespace_formats) : MatchNamespace(namespace, namespace_formats[i].prefix)
  THEN CHOOSE i \in 1..Len(namespace_formats) :
         /\ MatchNamespace(namespace, namespace_formats[i].prefix)
         /\ \A j \in 1..(i-1) : ~MatchNamespace(namespace, namespace_formats[j].prefix)
  ELSE 0

\* lines 523-547: namespace is naming_registry.get("namespace", ""), hit the
\* index of the pattern that matched it
NamingRegistryResult(nr, namespace, hit) ==
  Sub(nr.format = Some(S_reverse_DNS) /\ hit # 0,
         When(nr.format # Some(S_reverse_DNS), M0("Naming registry format must be 'reverse-DNS'"))
      \o When(hit = 0, MArg("Invalid namespace format: {namespace}", namespace)),
      IF hit = 0 THEN << >>
      ELSE IF ~namespace_formats[hit].verification_required THEN << >>
      ELSE IF ~IsSome(nr.verificationStatus)
      THEN <<MArg("Namespace {namespace} requires verification", namespace)>>
      ELSE IF Get(nr.verificationStatus) # S_verified
      THEN <<MArg("Namespace {namespace} is not verified", namespace)>>
      ELSE << >>)

NamespaceOf(nr) == IF IsSome(nr.namespace) THEN Get(nr.namespace) ELSE << >>

_validate_naming_registry(nr) ==
  NamingRegistryResult(nr, NamespaceOf(nr), FirstMatch(NamespaceOf(nr)))

NameOutcome(raised, exc, result) == [raised |-> raised, exc |-> exc, result |-> result]

\* lines 553-572, given that the lookup of the pattern succeeded
ArtifactNameErrors(name) ==
     When(~MatchArtifactFormat(name), MArg("Invalid artifact name format: {name}", name))
  \o When(Len(name) > max_length, M0("Artifact name too long (max {max_len} characters)"))
  \o When(Len(name) < min_length, M0("Artifact name too short (min {min_len} characters)"))

NameResult(errors, warnings) == Sub(errors = << >>, errors, warnings)

\* Line 554 reads naming_rules["artifact_patterns"]["pattern"]: the dict has no
\* such key, so the subscript raises KeyError before any check of the name.
_validate_artifact_name(name) ==
  IF "pattern" \notin artifact_patterns_keys
  THEN NameOutcome(TRUE, "KeyError", NoSub)
  ELSE NameOutcome(FALSE, "",
         NameResult(ArtifactNameErrors(name),
                    When(name \in reserved_words,
                         MArg("Artifact name uses reserved word: {name}", name))))

\* version_patterns in dict order: semver, prerelease, build
_validate_version(version) ==
  IF MatchSemver(version) THEN Sub(TRUE, << >>, << >>)
  ELSE IF MatchSuffixed(version, "-")
  THEN Sub(TRUE, << >>, <<M0("Using prerelease version")>>)
  ELSE IF MatchSuffixed(version, "+")
  THEN Sub(TRUE, << >>, <<M0("Using build version with metadata")>>)
  ELSE Sub(FALSE, <<MArg("Invalid version format: {version}", version)>>, << >>)

NamResult(valid, errors, warnings, ns, an, vc) ==
  [present |-> TRUE, valid |-> valid, errors |-> errors, warnings |-> warnings,
   namespace_compliance |-> ns, artifact_name_compliance |-> an, version_compliance |-> vc]

\* lines 448-475: ns, an and vc are the three compliance results
CombineNaming(ns, an, vc) ==
  IF an.raised
  THEN NameOutcome(TRUE, an.exc, NamResult(ns.valid, ns.errors, ns.warnings, ns, NoSub, NoSub))
  ELSE NameOutcome(FALSE, "",
         NamResult(ns.valid /\ an.result.valid /\ vc.valid,
                   ns.errors \o an.result.errors \o vc.errors,
                   ns.warnings \o an.result.warnings \o vc.warnings,
                   ns, an.result, vc))

\* validate_naming_specifications: a result, or the exception that ends the call
validate_naming_specifications(a) ==
  IF ~HasKey(a, "metadata")
  THEN NameOutcome(FALSE, "",
         NamResult(FALSE, <<M0("Missing metadata")>>, << >>, NoSub, NoSub, NoSub))
  ELSE CombineNaming(
         IF IsSome(a.metadata.namingRegistry)
         THEN _validate_naming_registry(Get(a.metadata.namingRegistry)) ELSE NoSub,
         IF IsSome(a.metadata.name)
         THEN _validate_artifact_name(Get(a.metadata.name))
         ELSE NameOutcome(FALSE, "", NoSub),
         IF IsSome(a.metadata.version)
         THEN _validate_version(Get(a.metadata.version)) ELSE NoSub)

---------------------------------------------------------------------------
(* ReferenceValidator (extended-validator.py 599-697) *)

\* _extract_references on the documents of the model: of their keys only
\* spec.configRef ends in "Ref" or "Reference"
_extract_references(a) ==
  IF HasKey(a, "spec") /\ IsSome(a.spec.configRef)
  THEN << [field |-> "spec.configRef", reference |-> Get(a.spec.configRef)] >>
  ELSE << >>

\* A YAML value as yaml.safe_load gives it: a dict (kind "map", its entries in
\* document order), a list, a string or an integer
MapNode(entries) == [kind |-> "map", entries |-> entries, items |-> << >>, str |-> << >>]
ListNode(items) == [kind |-> "list", entries |-> << >>, items |-> items, str |-> << >>]
StrNode(str) == [kind |-> "str", entries |-> << >>, items |-> << >>, str |-> str]
IntNode == [kind |-> "int", entries |-> << >>, items |-> << >>, str |-> << >>]
Entry(key, value) == [key |-> key, value |-> value]

\* str.endswith
EndsWith(s, suffix) ==
  Len(s) >= Len(suffix) /\ SubSeq(s, Len(s) - Len(suffix) + 1, Len(s)) = suffix

\* line 641: key.endswith("Ref") or key.endswith("Reference")
IsReferenceKey(key) ==
  EndsWith(key, <<"R","e","f">>) \/ EndsWith(key, <<"R","e","f","e","r","e","n","c","e">>)

\* str(i) for an index i
RECURSIVE Decimal(_)
Decimal(i) ==
  IF i < 10 THEN SubSeq(<<"0","1","2","3","4","5","6","7","8","9">>, i + 1, i + 1)
  ELSE Decimal(i \div 10) \o Decimal(i % 10)

\* line 639: f"{path}.{key}" if path else key
KeyPath(path, key) == IF path = << >> THEN key ELSE path \o <<".">> \o key
\* line 652: f"{path}[{i}]" if path else f"[{i}]"
IndexPath(path, i) == path \o <<"[">> \o Decimal(i) \o <<"]">>

IsContainer(node) == node.kind \in {"map", "list"}

\* lines 633-656: the references found in node, in the order found.  A key
\* that ends in Ref or Reference is reported with its value, whatever the
\* value is, and the walk does not go below it (the elif of line 647).
RECURSIVE ExtractReferences(_, _)
ExtractReferences(node, path) ==
  IF node.kind = "map"
  THEN ConcatAll([i \in 1..Len(node.entries) |->
         IF IsReferenceKey(node.entries[i].key)
         THEN <<[field |-> KeyPath(path, node.entries[i].key),
                 reference |-> node.entries[i].value]>>
         ELSE IF IsContainer(node.entries[i].value)
         THEN ExtractReferences(node.entries[i].value, KeyPath(path, node.entries[i].key))
         ELSE << >>])
  ELSE IF node.kind = "list"
  THEN ConcatAll([i \in 1..Len(node.items) |->
         IF IsContainer(node.items[i])
         THEN ExtractReferences(node.items[i], IndexPath(path, i - 1))
         ELSE << >>])
  ELSE << >>

\* A reference value that is not a string: the YAML integer 42.  No string of
\* the model equals it, since the elements of a string are single characters.
NotAString == <<"int 42">>
\* isinstance(ref_value, str)
IsStr(v) == v # NotAString

_is_valid_reference_format(reference) ==
  MatchNamespacedName(reference) \/ MatchVersionedReference(reference)

\* lines 677-688: the reference value is a string
ValidateStringReference(ref, reg) ==
  [valid |-> _is_valid_reference_format(ref.reference),
   errors |-> When(~_is_valid_reference_format(ref.reference),
                   MArg("Invalid reference format: {ref_value}", ref.reference)),
   warnings |-> When(reg # {} /\ ref.reference \notin reg,
                     MArg("Reference target not found in registry: {ref_value}", ref.reference)),
   broken |-> ~_is_valid_reference_format(ref.reference),
   target_exists |-> ~(reg # {} /\ ref.reference \notin reg)]

\* lines 658-688 with a value of the wrong shape reported as a warning only
_validate_reference_FormatWarns(ref, reg) ==
  [valid |-> TRUE, errors |-> << >>,
   warnings |-> IF IsStr(ref.reference)
                THEN ValidateStringReference(ref, reg).warnings
                       \o ValidateStringReference(ref, reg).errors
                ELSE <<MKey("Invalid reference format at {field}", ref.field)>>,
   broken |-> FALSE,
   target_exists |-> IF IsStr(ref.reference)
                     THEN ValidateStringReference(ref, reg).target_exists ELSE TRUE]

_validate_reference(ref, reg) ==
  IF ~IsStr(ref.reference)
  THEN [valid |-> FALSE,
        errors |-> <<MKey("Invalid reference format at {field}", ref.field)>>,
        warnings |-> << >>, broken |-> TRUE, target_exists |-> TRUE]
  ELSE ValidateStringReference(ref, reg)

RefResult(valid, errors, warnings, broken, missing) ==
  [present |-> TRUE, valid |-> valid, errors |-> errors, warnings |-> warnings,
   broken_references |-> broken, missing_targets |-> missing]

\* lines 618-631: refs the references found, rs the result of each
FoldReferences(refs, rs) ==
  RefResult(
    \A i \in 1..Len(refs) : rs[i].valid,
    ConcatAll([i \in 1..Len(refs) |-> IF rs[i].valid THEN << >> ELSE rs[i].errors]),
    ConcatAll([i \in 1..Len(refs) |-> rs[i].warnings]),
    ConcatAll([i \in 1..Len(refs) |-> When(rs[i].broken, refs[i])]),
    ConcatAll([i \in 1..Len(refs) |-> When(~rs[i].target_exists, refs[i])]))

ValidateEach(refs, reg) == [i \in 1..Len(refs) |-> _validate_reference(refs[i], reg)]

validate_references(a, reg) ==
  FoldReferences(_extract_references(a), ValidateEach(_extract_references(a), reg))

---------------------------------------------------------------------------
(* ExtendedMCPValidator.validate_artifact_extended (extended-validator.py 713-790) *)

\* a section of the report left at its default, the empty dict
NoDep == [present |-> FALSE, valid |-> TRUE, errors |-> << >>, warnings |-> << >>,
          missing_dependencies |-> << >>, invalid_versions |-> << >>,
          circular_dependencies |-> << >>]
NoSem == [present |-> FALSE, raised |-> FALSE, exc |-> "", valid |-> TRUE, errors |-> << >>,
          warnings |-> << >>, type_violations |-> << >>, relationship_violations |-> << >>]
NoNam == [present |-> FALSE, valid |-> TRUE, errors |-> << >>, warnings |-> << >>,
          namespace_compliance |-> NoSub, artifact_name_compliance |-> NoSub,
          version_compliance |-> NoSub]
NoRef == [present |-> FALSE, valid |-> TRUE, errors |-> << >>, warnings |-> << >>,
          broken_references |-> << >>, missing_targets |-> << >>]
NoMetrics == [present |-> FALSE, dependency_count |-> 0, endpoint_count |-> 0,
              reference_count |-> 0]
NoBasic == [status |-> "none", errors |-> << >>, warnings |-> << >>]

Report(status, atype, errors, warnings, dep, sem, ep, nam, ref, circ, metrics) ==
  [status |-> status, artifact_type |-> atype, errors |-> errors, warnings |-> warnings,
   dependency_results |-> dep, semantic_results |-> sem, endpoint_results |-> ep,
   naming_results |-> nam, reference_results |-> ref,
   circular_dependency_detected |-> circ, performance_metrics |-> metrics]

NoReport == Report("none", "None", << >>, << >>, NoDep, NoSem, NoSub, NoNam, NoRef,
                   FALSE, NoMetrics)

\* lines 725-731: the report returned when the artifact cannot be loaded
LoadFailureReport ==
  Report("failed", "None", <<M0("Failed to load artifact: {e}")>>, << >>,
         NoDep, NoSem, NoSub, NoNam, NoRef, FALSE, NoMetrics)

\* lines 758-766 without the test of strict
FinalStatus_IgnoringStrict(errors, warnings, strict) ==
  IF errors # << >> THEN "failed"
  ELSE IF warnings # << >> THEN "warning"
  ELSE "passed"

\* lines 758-766
FinalStatus(errors, warnings, strict) ==
  IF errors # << >> THEN "failed"
  ELSE IF warnings # << >> /\ strict THEN "failed"
  ELSE IF warnings # << >> THEN "warning"
  ELSE "passed"

\* lines 751-756 with the naming section merged before the dependency section
MergeErrors_NamingFirst(basic, dep, sem, nam, ref, ep) ==
  basic.errors \o nam.errors \o dep.errors \o sem.errors \o ref.errors \o ep.errors

\* lines 751-756: basic_result first, then the sections in the order of all_results
MergeErrors(basic, dep, sem, nam, ref, ep) ==
  basic.errors \o dep.errors \o sem.errors \o nam.errors \o ref.errors \o ep.errors

MergeWarnings(basic, dep, sem, nam, ref, ep) ==
  basic.warnings \o dep.warnings \o sem.warnings \o nam.warnings \o ref.warnings \o ep.warnings

\* len(artifact.get("dependsOn", []))
DependencyCount(a) ==
  IF ~HasKey(a, "dependsOn") THEN 0
  ELSE IF a.dependsOn.isList THEN Len(a.dependsOn.items) ELSE Len(a.dependsOn.scalar)

\* The outcome of a call: kind "report" with the report returned, or kind
\* "raised" with the type of the exception that propagates to the caller.
\* graph is the dependency graph the call leaves behind, ran the validators
\* that returned before the call ended, basic the base validator's result, dep
\* and nam how the calls of validate_dependencies and of
\* validate_naming_specifications ended, sem and ref what
\* validate_semantic_consistency and validate_references returned.
Outcome(kind, exc, g, ran, basic, dep, sem, nam, ref, report) ==
  [kind |-> kind, exc |-> exc, graph |-> g, ran |-> ran, basic |-> basic, dep |-> dep,
   sem |-> sem, nam |-> nam, ref |-> ref, report |-> report]

\* validate_dependencies was not called
NotCalled(g) == DepOutcome(FALSE, "", g, NoDep)
\* validate_naming_specifications was not called
NamNotCalled == NameOutcome(FALSE, "", NoNam)

\* lines 768-790
BuildReport(a, strict, errors, warnings, dep, sem, ep, nam, ref) ==
  Report(FinalStatus(errors, warnings, strict),
         IF HasKey(a, "kind") THEN "Manifest" ELSE "Unknown",
         errors, warnings, dep, sem, ep, nam, ref,
         dep.circular_dependencies # << >>,
         [present |-> TRUE,
          dependency_count |-> DependencyCount(a),
          endpoint_count |-> 0,
          reference_count |-> Len(ref.broken_references)])

\* lines 733-790 in the order the statements run: basic, dep, sem, nam and ref
\* are what the five validator calls give; a call that raises ends the run
\* before the statements after it
Aggregate(a, strict, basic, dep, sem, nam, ref, ep) ==
  IF dep.raised
  THEN Outcome("raised", dep.exc, dep.graph, {"basic"}, basic, dep, NoSem, NamNotCalled,
               NoRef, NoReport)
  ELSE IF sem.raised
  THEN Outcome("raised", sem.exc, dep.graph, {"basic", "dependency"}, basic, dep, sem,
               NamNotCalled, NoRef, NoReport)
  ELSE IF nam.raised
  THEN Outcome("raised", nam.exc, dep.graph, {"basic", "dependency", "semantic"},
               basic, dep, sem, nam, NoRef, NoReport)
  ELSE Outcome("report", "", dep.graph,
               {"basic", "dependency", "semantic", "naming", "reference"}, basic, dep,
               sem, nam, ref,
               BuildReport(a, strict,
                           MergeErrors(basic, dep.result, sem, nam.result, ref, ep),
                           MergeWarnings(basic, dep.result, sem, nam.result, ref, ep),
                           dep.result, sem, ep, nam.result, ref))

\* the call without the early return of lines 725-731
validate_artifact_extended_NoEarlyReturn(a, strict, g, reg) ==
  Aggregate(a, strict,
            validate_artifact(a, strict),
            validate_dependencies(a, g, reg),
            validate_semantic_consistency(a),
            validate_naming_specifications(a),
            validate_references(a, reg),
            Sub(TRUE, << >>, << >>))

validate_artifact_extended(a, strict, g, reg) ==
  IF ~a.parses
  THEN Outcome("report", "", g, {}, NoBasic, NotCalled(g), NoSem, NamNotCalled, NoRef,
               LoadFailureReport)
  ELSE Aggregate(a, strict,
                 validate_artifact(a, strict),
                 validate_dependencies(a, g, reg),
                 validate_semantic_consistency(a),
                 validate_naming_specifications(a),
                 validate_references(a, reg),
                 Sub(TRUE, << >>, << >>))

---------------------------------------------------------------------------
(* The documents the model validates *)

\* An entry of dependsOn: a mapping (shape "object") with its four optional
\* fields, a string (its characters in text) or a number
Dep(artifact, purpose, version, semanticType) ==
  [shape |-> "object", text |-> << >>, artifact |-> artifact, purpose |-> purpose,
   version |-> version, semanticType |-> semanticType]
DepString(text) ==
  [shape |-> "string", text |-> text, artifact |-> << >>, purpose |-> << >>,
   version |-> << >>, semanticType |-> << >>]
DepNumber ==
  [shape |-> "number", text |-> << >>, artifact |-> << >>, purpose |-> << >>,
   version |-> << >>, semanticType |-> << >>]
Meta(name, version, semanticType, namingRegistry) ==
  [name |-> name, version |-> version, semanticType |-> semanticType,
   namingRegistry |-> namingRegistry]
NamingRegistry(format, namespace, status) ==
  [format |-> format, namespace |-> namespace, verificationStatus |-> status]

NoMeta == Meta(None, None, None, None)
NoSpec == [configRef |-> None]
\* the value of dependsOn: a list of declarations, or a scalar string
DepList(items) == [isList |-> TRUE, items |-> items, scalar |-> << >>]
DepScalar(str) == [isList |-> FALSE, items |-> << >>, scalar |-> str]

\* A parsed document.  A field whose key is not in keys holds its placeholder.
Doc(keys, metadata, spec, dependsOn) ==
  [parses |-> TRUE, keys |-> keys, metadata |-> metadata, spec |-> spec,
   dependsOn |-> dependsOn]

\* A file that cannot be opened or is not YAML
Unparseable ==
  [parses |-> FALSE, keys |-> {}, metadata |-> NoMeta, spec |-> NoSpec,
   dependsOn |-> DepList(<< >>)]

\* {apiVersion: "v1", kind: "Manifest",
\*  metadata: {name: "test-artifact", version: "1.0.0", semanticType: "manifest"},
\*  spec: {}, dependsOn: [{artifact: "a", purpose: "config"}]}
GoodDoc ==
  Doc({"apiVersion", "kind", "metadata", "spec", "dependsOn"},
      Meta(Some(S_test_artifact), Some(S_1_0_0), Some(T_manifest), None),
      NoSpec,
      DepList(<<Dep(Some(S_a), Some(S_config), None, None)>>))

\* the longest dependsOn list of a batch document
MaxDeps == 1

SeqsUpTo(S, n) == UNION {[1..k -> S] : k \in 0..n}

\* Batch documents: GoodDoc with its name and its dependsOn varied, so that
\* the documents of one batch can depend on each other
BatchNames == {None, Some(S_test_artifact), Some(S_a)}
BatchDeps == {Dep(Some(S_a), Some(S_config), None, None),
              Dep(Some(S_test_artifact), Some(S_config), None, None)}
BatchDocs ==
  {Unparseable} \cup
  {Doc({"apiVersion", "kind", "metadata", "spec"} \cup (IF d.has THEN {"dependsOn"} ELSE {}),
       Meta(n, Some(S_1_0_0), Some(T_manifest), None), NoSpec, d.val) :
     n \in BatchNames,
     d \in {[has |-> FALSE, val |-> DepList(<< >>)], [has |-> TRUE, val |-> DepScalar(S_a)]}
           \cup {[has |-> TRUE, val |-> DepList(items)] : items \in SeqsUpTo(BatchDeps, MaxDeps)}}

\* Single documents: every combination of the field values below
RichNames == {None, Some(S_test_artifact), Some(S_mcp), Some(S_ns_cfg)}
RichVersions == {None, Some(S_1_0_0), Some(S_1_0_0_rc1), Some(S_1_0_0_b7), Some(S_latest)}
RichTypes == {None, Some(T_manifest), Some(T_taxonomy), Some(T_invalid_type)}
RichRegistries ==
  {None,
   Some(NamingRegistry(Some(S_reverse_DNS), Some(S_io_github_user), Some(S_verified))),
   Some(NamingRegistry(Some(S_reverse_DNS), Some(S_io_github_user), Some(S_pending))),
   Some(NamingRegistry(Some(S_flat), Some(S_invalid_namespace), None))}
RichMetas ==
  {Meta(n, v, t, r) : n \in RichNames, v \in RichVersions, t \in RichTypes, r \in RichRegistries}
RichDependsOn ==
  {DepScalar(S_a), DepList(<< >>),
   DepList(<<Dep(Some(S_a), Some(S_config), None, None)>>),
   DepList(<<Dep(None, Some(S_config), None, None)>>),
   DepList(<<Dep(Some(S_a), None, Some(S_latest), Some(T_toolchain))>>),
   DepList(<<Dep(Some(S_test_artifact), Some(S_config), Some(S_caret_1_0_0), Some(T_schema))>>),
   DepList(<<DepNumber>>)}
RichSpecs == {[configRef |-> r] : r \in {None, Some(S_ns_cfg), Some(S_badref)}}
RichDocs ==
  {Unparseable} \cup
  {Doc(k \cup {"kind"} \cup (IF m.has THEN {"metadata"} ELSE {})
         \cup (IF sp.has THEN {"spec"} ELSE {}) \cup (IF d.has THEN {"dependsOn"} ELSE {}),
       m.val, sp.val, d.val) :
     k \in SUBSET {"apiVersion", "schema"},
     m \in {[has |-> FALSE, val |-> NoMeta]} \cup {[has |-> TRUE, val |-> x] : x \in RichMetas},
     sp \in {[has |-> FALSE, val |-> NoSpec]} \cup {[has |-> TRUE, val |-> x] : x \in RichSpecs},
     d \in {[has |-> FALSE, val |-> DepList(<< >>)]}
           \cup {[has |-> TRUE, val |-> x] : x \in RichDependsOn}}

\* artifact_registry as given to the constructor: absent, or a registry that
\* knows the artifacts "a" and "ns/cfg"
Registries == {{}, {S_a, S_ns_cfg}}

---------------------------------------------------------------------------
(* The state machine *)

\* _validate_single_dependency was not called on its own
NoSingle == [valid |-> TRUE, errors |-> << >>, warnings |-> << >>,
             missing_dependencies |-> << >>, invalid_versions |-> << >>,
             dep |-> Dep(None, None, None, None), index |-> 0]
\* _extract_references was not called on its own
NoTree == [kind |-> "none", entries |-> << >>, items |-> << >>, str |-> << >>]
\* the process has not exited
NoExit == [exited |-> FALSE, code |-> 0]

NoCall ==
  [called |-> FALSE, doc |-> Unparseable, strict |-> FALSE, kind |-> "none", exc |-> "",
   ran |-> {}, basic |-> NoBasic, dep |-> NotCalled(EmptyGraph), sem |-> NoSem,
   nam |-> NamNotCalled, ref |-> NoRef, single |-> NoSingle, exit |-> NoExit,
   unit |-> "", report |-> NoReport, tree |-> NoTree, found |-> << >>]

\* ExtendedMCPValidator.__init__ (702-711) and DependencyValidator.__init__ (67-69)
Init ==
  /\ graph = EmptyGraph
  /\ registry \in Registries
  /\ last = NoCall

\* The call has ended with outcome out: the graph it leaves and what the caller sees
Commit(a, strict, out) ==
  /\ graph' = out.graph
  /\ last' = [called |-> TRUE, doc |-> a, strict |-> strict, kind |-> out.kind,
              exc |-> out.exc, ran |-> out.ran, basic |-> out.basic, dep |-> out.dep,
              sem |-> out.sem, nam |-> out.nam, ref |-> out.ref, single |-> NoSingle,
              exit |-> NoExit, unit |-> "", report |-> out.report,
              tree |-> NoTree, found |-> << >>]
  /\ UNCHANGED registry

\* One call validator.validate_artifact_extended(path, strict) where the file
\* at path holds document a
ValidateArtifactExtended(a, strict) ==
  Commit(a, strict, validate_artifact_extended(a, strict, graph, registry))

\* A validator that is used for a batch of documents
Next == \E a \in BatchDocs, strict \in BOOLEAN : ValidateArtifactExtended(a, strict)

Spec == Init /\ [][Next]_vars

\* A fresh validator that is used for one document
NextOnce ==
  /\ ~last.called
  /\ \E a \in RichDocs, strict \in BOOLEAN : ValidateArtifactExtended(a, strict)

SpecOnce == Init /\ [][NextOnce]_vars

\* the longest merged list the status is determined for
MaxMessages == 2

\* merged lists of errors and of warnings
MergedErrors ==
  SeqsUpTo({M0("dependsOn must be an array"), M0("Missing metadata")}, MaxMessages)
MergedWarnings ==
  SeqsUpTo({M0("Naming registry format should be 'reverse-DNS'"),
            MArg("Namespace {namespace} requires verification", S_io_github_user)},
           MaxMessages)

\* Lines 758-766 on their own: the status determined for the merged lists errors
\* and warnings, whatever validators they came from
DetermineFinalStatus(errors, warnings, strict) ==
  /\ ~last.called
  /\ last' = [NoCall EXCEPT !.called = TRUE, !.strict = strict, !.kind = "status",
                            !.report = [NoReport EXCEPT
                                          !.status = FinalStatus(errors, warnings, strict),
                                          !.errors = errors, !.warnings = warnings]]
  /\ UNCHANGED <<graph, registry>>

NextStatus ==
  \E errors \in MergedErrors, warnings \in MergedWarnings, strict \in BOOLEAN :
    DetermineFinalStatus(errors, warnings, strict)

\* One call on a fresh validator, or the status rule alone on any merged lists
SpecStatus == Init /\ [][NextOnce \/ NextStatus]_vars


---------------------------------------------------------------------------
(* The component validators called on their own, as the unit tests call them *)

\* the declarations given to _validate_single_dependency
UnitDeclarations ==
  {Dep(a, p, v, t) :
     a \in {None, Some(S_a), Some(S_test_artifact)},
     p \in {None, Some(S_config)},
     v \in {None, Some(S_1_0_0), Some(S_caret_1_0_0), Some(S_tilde_1_0_0),
            Some(S_ge_1_0_0), Some(S_le_1_0_0), Some(S_latest), Some(S_1_0_0_rc1)},
     t \in {None, Some(T_schema)}}
  \cup {DepNumber, DepString(S_a)}

\* the documents given to validate_dependencies
UnitNames == {None, Some(S_a)}
UnitBatchDeps == {Dep(Some(S_a), Some(S_config), None, None),
                  Dep(Some(S_test_artifact), None, Some(S_latest), None),
                  Dep(None, Some(S_config), None, None),
                  DepNumber, DepString(S_a), DepString(S_test_artifact)}
UnitDepDocs ==
  {Doc({"kind", "metadata"} \cup (IF d.has THEN {"dependsOn"} ELSE {}),
       Meta(n, None, None, None), NoSpec, d.val) :
     n \in UnitNames,
     d \in {[has |-> FALSE, val |-> DepList(<< >>)], [has |-> TRUE, val |-> DepScalar(S_a)]}
           \cup {[has |-> TRUE, val |-> DepList(items)] :
                   items \in SeqsUpTo(UnitBatchDeps, MaxDeps)}
           \cup {[has |-> TRUE,
                  val |-> DepList(<<DepNumber,
                                    Dep(Some(S_test_artifact), Some(S_config), None, None)>>)]}}

\* the documents given to validate_semantic_consistency and validate_references
UnitTypes == {None, Some(T_manifest), Some(T_schema), Some(T_taxonomy), Some(T_invalid_type)}
UnitDependsOn ==
  {DepScalar(S_a), DepList(<< >>),
   DepList(<<Dep(Some(S_a), Some(S_config), None, None)>>),
   DepList(<<Dep(Some(S_a), Some(S_config), None, Some(T_schema))>>),
   DepList(<<Dep(Some(S_a), Some(S_config), None, Some(T_toolchain))>>),
   DepList(<<Dep(Some(S_a), Some(S_config), None, Some(T_toolchain)),
             Dep(Some(S_test_artifact), Some(S_config), None, Some(T_manifest))>>),
   DepList(<<DepNumber, Dep(Some(S_a), Some(S_config), None, Some(T_toolchain))>>),
   DepList(<<DepString(S_a), Dep(Some(S_a), Some(S_config), None, Some(T_toolchain))>>)}
UnitSpecs ==
  {[configRef |-> r] :
     r \in {None, Some(S_ns_cfg), Some(S_ns_cfg_1_0_0), Some(S_ns_other), Some(S_badref),
            Some(NotAString)}}
UnitDocs ==
  {Doc(k \cup {"kind"} \cup (IF m THEN {"metadata"} ELSE {})
         \cup (IF sp.has THEN {"spec"} ELSE {}) \cup (IF d.has THEN {"dependsOn"} ELSE {}),
       Meta(None, None, t, None), sp.val, d.val) :
     k \in SUBSET {"apiVersion", "schema"},
     m \in BOOLEAN,
     t \in UnitTypes,
     sp \in {[has |-> FALSE, val |-> NoSpec]} \cup {[has |-> TRUE, val |-> x] : x \in UnitSpecs},
     d \in {[has |-> FALSE, val |-> DepList(<< >>)]}
           \cup {[has |-> TRUE, val |-> x] : x \in UnitDependsOn}}

\* the documents given to validate_naming_specifications
UnitNamingDocs ==
  {Doc({"kind"} \cup (IF m.has THEN {"metadata"} ELSE {}), m.val, NoSpec, DepList(<< >>)) :
     m \in {[has |-> FALSE, val |-> NoMeta]} \cup {[has |-> TRUE, val |-> x] : x \in RichMetas}}

\* a call of the component method named unit on document a has ended
UnitCall(unit, a, raised, exc) ==
  [NoCall EXCEPT !.called = TRUE, !.unit = unit, !.doc = a,
                 !.kind = IF raised THEN "raised" ELSE "returned", !.exc = exc]

\* DependencyValidator.validate_dependencies(a) on the validator's graph
DependenciesCalled(a, out) ==
  /\ graph' = out.graph
  /\ last' = [UnitCall("validate_dependencies", a, out.raised, out.exc) EXCEPT !.dep = out]
  /\ UNCHANGED registry

CallValidateDependencies(a) ==
  /\ ~last.called \/ last.unit = "validate_dependencies"
  /\ DependenciesCalled(a, validate_dependencies(a, graph, registry))

\* DependencyValidator._validate_single_dependency(dep, index)
SingleCalled(dep, index, r) ==
  last' = [UnitCall("_validate_single_dependency", Unparseable, FALSE, "") EXCEPT
             !.single = [valid |-> r.valid, errors |-> r.errors, warnings |-> r.warnings,
                         missing_dependencies |-> r.missing_dependencies,
                         invalid_versions |-> r.invalid_versions,
                         dep |-> dep, index |-> index]]

CallValidateSingleDependency(dep, index) ==
  /\ ~last.called
  /\ SingleCalled(dep, index, _validate_single_dependency(dep, index, registry))
  /\ UNCHANGED <<graph, registry>>

\* SemanticTypeValidator.validate_semantic_consistency(a)
CallValidateSemantic(a) ==
  /\ ~last.called
  /\ last' = [UnitCall("validate_semantic_consistency", a,
                         validate_semantic_consistency(a).raised,
                         validate_semantic_consistency(a).exc) EXCEPT
                !.sem = validate_semantic_consistency(a)]
  /\ UNCHANGED <<graph, registry>>

\* NamingSpecificationValidator.validate_naming_specifications(a)
NamingCalled(a, out) ==
  last' = [UnitCall("validate_naming_specifications", a, out.raised, out.exc) EXCEPT
             !.nam = out]

CallValidateNaming(a) ==
  /\ ~last.called
  /\ NamingCalled(a, validate_naming_specifications(a))
  /\ UNCHANGED <<graph, registry>>

\* ReferenceValidator.validate_references(a)
CallValidateReferences(a) ==
  /\ ~last.called
  /\ last' = [UnitCall("validate_references", a, FALSE, "") EXCEPT
                !.ref = validate_references(a, registry)]
  /\ UNCHANGED <<graph, registry>>

\* the documents given to _validate_structure: every combination of the
\* required top-level fields and of the required metadata fields
StructureDocs ==
  {Doc(k, Meta(n, v, t, None), NoSpec, DepList(<< >>)) :
     k \in SUBSET {"apiVersion", "kind", "metadata"},
     n \in {None, Some(S_test_artifact)},
     v \in {None, Some(S_1_0_0)},
     t \in {None, Some(T_manifest)}}

\* MCPValidator._validate_structure(a)
CallValidateStructure(a) ==
  /\ ~last.called
  /\ last' = [UnitCall("_validate_structure", a, FALSE, "") EXCEPT
                !.basic = [NoBasic EXCEPT !.errors = _validate_structure(a)]]
  /\ UNCHANGED <<graph, registry>>

\* the deepest nesting of the YAML values given to _extract_references
MaxDepth == 4
\* the keys of the maps: two that name a reference, two that do not
TreeKeys == {<<"s","p","e","c">>, <<"i","t","e","m","s">>,
             <<"c","o","n","f","i","g","R","e","f">>,
             <<"b","a","s","e","R","e","f","e","r","e","n","c","e">>}
TreeLeaves == {StrNode(S_ns_cfg), IntNode}
\* the values that hold a value of sub one level down
Wrap(sub) ==
       {MapNode(<<Entry(k, t)>>) : k \in TreeKeys, t \in sub}
  \cup {MapNode(<<Entry(<<"s","p","e","c">>, t),
                  Entry(<<"c","o","n","f","i","g","R","e","f">>, StrNode(S_ns_other))>>) :
          t \in sub}
  \cup {ListNode(<<t>>) : t \in sub}
  \cup {ListNode(<<IntNode, t>>) : t \in sub}
RECURSIVE TreesOfDepth(_)
TreesOfDepth(n) == IF n = 0 THEN TreeLeaves ELSE TreeLeaves \cup Wrap(TreesOfDepth(n - 1))
\* the documents given to _extract_references: a document is a map
UnitTrees == {t \in TreesOfDepth(MaxDepth) : t.kind = "map"}

\* ReferenceValidator._extract_references(tree)
CallExtractReferences(tree) ==
  /\ ~last.called
  /\ last' = [UnitCall("_extract_references", Unparseable, FALSE, "") EXCEPT
                !.tree = tree, !.found = ExtractReferences(tree, << >>)]
  /\ UNCHANGED <<graph, registry>>

\* the positions of a declaration in dependsOn
Indexes == 0..MaxDeps

NextUnits ==
  \/ \E a \in UnitDepDocs : CallValidateDependencies(a)
  \/ \E dep \in UnitDeclarations, index \in Indexes : CallValidateSingleDependency(dep, index)
  \/ \E a \in UnitDocs : CallValidateSemantic(a)
  \/ \E a \in UnitNamingDocs : CallValidateNaming(a)
  \/ \E a \in UnitDocs : CallValidateReferences(a)
  \/ \E a \in StructureDocs : CallValidateStructure(a)
  \/ \E tree \in UnitTrees : CallExtractReferences(tree)

\* Each component validator on its own: a DependencyValidator called any
\* number of times, the stateless validators called once
SpecUnits == Init /\ [][NextUnits]_vars

---------------------------------------------------------------------------
(* main: the command line entry point (extended-validator.py 792-953) *)

\* line 953
ExitCode(status) == IF status = "passed" THEN 0 ELSE 1

Exited(code) == [exited |-> TRUE, code |-> code]

\* lines 866-868: the artifact path does not exist
ExitNotFound(strict) ==
  /\ last' = [NoCall EXCEPT !.called = TRUE, !.unit = "main", !.strict = strict,
                            !.kind = "not_found", !.exit = Exited(1)]
  /\ UNCHANGED <<graph, registry>>

\* lines 877-953: the validator has ended with outcome out.  An exception that
\* nothing catches ends the interpreter with exit status 1.
ExitAfter(a, strict, out) ==
  /\ graph' = out.graph
  /\ last' = [called |-> TRUE, doc |-> a, strict |-> strict, kind |-> out.kind,
              exc |-> out.exc, ran |-> out.ran, basic |-> out.basic, dep |-> out.dep,
              sem |-> out.sem, nam |-> out.nam, ref |-> out.ref, single |-> NoSingle,
              exit |-> Exited(IF out.kind = "raised" THEN 1
                              ELSE ExitCode(out.report.status)),
              unit |-> "main", report |-> out.report, tree |-> NoTree, found |-> << >>]
  /\ UNCHANGED registry

\* One run of the command line on the file that holds document a
Main(exists, a, strict) ==
  IF ~exists THEN ExitNotFound(strict)
  ELSE ExitAfter(a, strict, validate_artifact_extended(a, strict, graph, registry))

\* ExtendedValidationStatus
Statuses == {"passed", "failed", "warning", "skipped"}

\* Line 953 on its own: the exit code for a result of the given status
ExitWithStatus(status, strict) ==
  /\ last' = [NoCall EXCEPT !.called = TRUE, !.unit = "main", !.strict = strict,
                            !.kind = "exit", !.exit = Exited(ExitCode(status)),
                            !.report = [NoReport EXCEPT !.status = status]]
  /\ UNCHANGED <<graph, registry>>

\* the process runs once
NextMain ==
  /\ ~last.called
  /\ \/ \E exists \in BOOLEAN, a \in RichDocs, strict \in BOOLEAN : Main(exists, a, strict)
     \/ \E status \in Statuses, strict \in BOOLEAN : ExitWithStatus(status, strict)

\* One run of the command line, or its exit rule alone on a result of any status
SpecMain == Init /\ [][NextMain]_vars

---------------------------------------------------------------------------
(* Vocabulary of the properties *)

\* the nodes reachable from the nodes S by zero or more edges of g
RECURSIVE ReachFrom(_, _)
ReachFrom(g, S) ==
  IF {e[2] : e \in {x \in g.edges : x[1] \in S}} \subseteq S THEN S
  ELSE ReachFrom(g, S \cup {e[2] : e \in {x \in g.edges : x[1] \in S}})

Successors(g, n) == {e[2] : e \in {x \in g.edges : x[1] = n}}
\* n lies on a directed cycle of g
OnCycle(g, n) == n \in ReachFrom(g, Successors(g, n))
HasCycle(g) == \E n \in g.nodes : OnCycle(g, n)

\* the last call was made on a document that parsed and whose dependsOn is a
\* list, so that validate_dependencies added its node and edges to the graph
AddedToGraph ==
  /\ last.called /\ last.doc.parses
  /\ HasKey(last.doc, "dependsOn") /\ last.doc.dependsOn.isList

HasMessage(msgs, code) == \E i \in 1..Len(msgs) : msgs[i].code = code

\* what the caller of the last call observed
Observed(l) == [kind |-> l.kind, exc |-> l.exc, report |-> l.report]

---------------------------------------------------------------------------
(* C1 *)

\* C1: the status of a report is failed if its merged errors list is
\* non-empty; failed if errors is empty, warnings is non-empty and strict is
\* set; warning if errors is empty, warnings is non-empty and strict is not
\* set; passed exactly when both lists are empty.
C1_StatusFromMergedLists ==
  last.kind \in {"report", "status"} =>
    /\ (last.report.errors # << >> => last.report.status = "failed")
    /\ (last.report.errors = << >> /\ last.report.warnings # << >> /\ last.strict
          => last.report.status = "failed")
    /\ (last.report.errors = << >> /\ last.report.warnings # << >> /\ ~last.strict
          => last.report.status = "warning")
    /\ (last.report.status = "passed"
          <=> last.report.errors = << >> /\ last.report.warnings = << >>)

\* a call returned a report that carries errors and warnings
C1_Witness ==
  /\ last.kind = "report" /\ last.doc.parses
  /\ last.report.errors # << >> /\ last.report.warnings # << >>
  /\ last.report.status = "failed"

---------------------------------------------------------------------------
(* C2 *)

\* C2: whenever the accumulated graph contains a directed cycle after the
\* current artifact's node and edges have been added, validate_dependencies
\* returns valid = false, a non-empty circular_dependencies list and a
\* circular-dependency error.
C2_CycleIsReported ==
  AddedToGraph /\ HasCycle(graph) =>
    /\ ~last.dep.raised
    /\ ~last.dep.result.valid
    /\ last.dep.result.circular_dependencies # << >>
    /\ HasMessage(last.dep.result.errors, "Circular dependencies detected: {cycles}")

---------------------------------------------------------------------------
(* C3 *)

\* the outcome and the graph a fresh validator with the same registry gives for
\* the document and the flag of call l
Fresh(l, reg) == validate_artifact_extended(l.doc, l.strict, EmptyGraph, reg)

SameAsFresh(l, g, fresh) == Observed(l) = Observed(fresh) /\ g = fresh.graph

---------------------------------------------------------------------------
(* C4 *)

\* C4: when the documents validated one after another by the same validator
\* have dependsOn edges that form a cycle, the report for the document that
\* closes the cycle has status failed and circular_dependency_detected = true.
C4_BatchCycleFails ==
  AddedToGraph /\ OnCycle(graph, NameOrUnknown(last.doc)) =>
    /\ last.kind = "report"
    /\ last.report.status = "failed"
    /\ last.report.circular_dependency_detected

---------------------------------------------------------------------------
(* C5 *)

\* every declaration of the document carries artifact and purpose
DeclarationsComplete(a) ==
  \A i \in 1..Len(a.dependsOn.items) :
    IsSome(a.dependsOn.items[i].artifact) /\ IsSome(a.dependsOn.items[i].purpose)

SameCycles(first, again) ==
  ~again.raised /\ again.result.circular_dependencies = first.result.circular_dependencies

\* C5: for an acyclic dependency graph validate_dependencies returns
\* valid = true with an empty circular_dependencies list, and running it again
\* on the same graph yields the same cycle set.
C5_AcyclicIsValid ==
  AddedToGraph /\ DeclarationsComplete(last.doc) /\ ~HasCycle(graph) =>
    /\ ~last.dep.raised
    /\ last.dep.result.valid
    /\ last.dep.result.circular_dependencies = << >>
    /\ SameCycles(last.dep, validate_dependencies(last.doc, graph, registry))

---------------------------------------------------------------------------
(* C6 *)

\* the dependency declarations of a are complete and name types that the type
\* t of a may depend on
DeclarationsSound(a, t) ==
  HasKey(a, "dependsOn") =>
    /\ a.dependsOn.isList
    /\ DeclarationsComplete(a)
    /\ \A i \in 1..Len(a.dependsOn.items) :
         IsSome(a.dependsOn.items[i].semanticType) =>
           Get(a.dependsOn.items[i].semanticType) \in semantic_type_schemas[t].can_depend_on

\* the document breaks no rule whose breach is an error: required fields,
\* name format and length, version format, semantic type and its fields,
\* dependency declarations, namespace format, reference format
Sound(a) ==
  /\ a.parses
  /\ {"apiVersion", "kind", "metadata"} \subseteq a.keys
  /\ IsSome(a.metadata.name) /\ IsSome(a.metadata.version) /\ IsSome(a.metadata.semanticType)
  /\ MatchArtifactFormat(Get(a.metadata.name))
  /\ Len(Get(a.metadata.name)) >= min_length /\ Len(Get(a.metadata.name)) <= max_length
  /\ \/ MatchSemver(Get(a.metadata.version))
     \/ MatchSuffixed(Get(a.metadata.version), "-")
     \/ MatchSuffixed(Get(a.metadata.version), "+")
  /\ Get(a.metadata.semanticType) \in DOMAIN semantic_type_schemas
  /\ Range(semantic_type_schemas[Get(a.metadata.semanticType)].required_fields) \subseteq a.keys
  /\ a.keys \subseteq AllowedFields(semantic_type_schemas[Get(a.metadata.semanticType)])
  /\ DeclarationsSound(a, Get(a.metadata.semanticType))
  /\ IsSome(a.metadata.namingRegistry) =>
       /\ Get(a.metadata.namingRegistry).format = Some(S_reverse_DNS)
       /\ FirstMatch(NamespaceOf(Get(a.metadata.namingRegistry))) # 0
  /\ \A i \in 1..Len(_extract_references(a)) :
       _is_valid_reference_format(_extract_references(a)[i].reference)

\* the document has none of the defects that are warnings: unverified
\* namespace, reserved-word name, prerelease or build version, dependency or
\* reference missing from the registry, invalid version-constraint syntax
WarningFree(a, reg) ==
  /\ Get(a.metadata.name) \notin reserved_words
  /\ MatchSemver(Get(a.metadata.version))
  /\ IsSome(a.metadata.namingRegistry) =>
       Get(a.metadata.namingRegistry).verificationStatus = Some(S_verified)
  /\ HasKey(a, "dependsOn") =>
       \A i \in 1..Len(a.dependsOn.items) :
         /\ reg # {} => Get(a.dependsOn.items[i].artifact) \in reg
         /\ IsSome(a.dependsOn.items[i].version) =>
              _is_valid_version_constraint(Get(a.dependsOn.items[i].version))
  /\ \A i \in 1..Len(_extract_references(a)) :
       reg # {} => _extract_references(a)[i].reference \in reg

\* C6: a document that satisfies every rule, validated without a registry, is
\* reported as passed with zero errors and zero warnings.
C6_GoodDocumentPasses ==
  last.called /\ Sound(last.doc) /\ WarningFree(last.doc, registry) /\ registry = {} =>
    /\ last.kind = "report"
    /\ last.report.status = "passed"
    /\ last.report.errors = << >>
    /\ last.report.warnings = << >>

---------------------------------------------------------------------------
(* C7 *)

SectionsEmpty(r) ==
  /\ ~r.dependency_results.present /\ ~r.semantic_results.present
  /\ ~r.endpoint_results.present /\ ~r.naming_results.present
  /\ ~r.reference_results.present /\ ~r.performance_metrics.present
  /\ ~r.circular_dependency_detected

\* C7: a call on an artifact that fails to load returns a failed report with
\* exactly one error, the load error, and no warnings; none of the validators
\* has run, every section of the report is empty and the dependency graph is
\* as it was before the call.
C7_LoadFailure ==
  [][ last'.called /\ ~last'.doc.parses =>
        /\ last'.kind = "report"
        /\ last'.report.status = "failed"
        /\ Len(last'.report.errors) = 1
        /\ last'.report.errors[1].code = "Failed to load artifact: {e}"
        /\ last'.report.warnings = << >>
        /\ last'.ran = {}
        /\ SectionsEmpty(last'.report)
        /\ graph' = graph ]_vars

\* a load failure on a validator whose graph holds the edges of earlier calls
C7_Witness ==
  /\ last.called /\ ~last.doc.parses /\ last.kind = "report"
  /\ Len(last.report.errors) = 1
  /\ graph.edges # {}

---------------------------------------------------------------------------
(* C8 *)

SectionsPopulated(r) ==
  /\ r.dependency_results.present /\ r.semantic_results.present
  /\ r.endpoint_results.present /\ r.naming_results.present
  /\ r.reference_results.present /\ r.performance_metrics.present

\* C8: for every document that parses, all of the structural, dependency,
\* semantic, naming and reference validators run and one report with every
\* section populated is returned.
C8_AllValidatorsRun ==
  last.called /\ last.doc.parses =>
    /\ last.kind = "report"
    /\ last.ran = {"basic", "dependency", "semantic", "naming", "reference"}
    /\ SectionsPopulated(last.report)

---------------------------------------------------------------------------
(* C9 *)

\* a warning was produced during call l: by the base validator, by the
\* dependency validator, or in the merged list of the report
ProducedWarning(l) ==
  \/ l.basic.warnings # << >>
  \/ l.dep.result.warnings # << >>
  \/ l.report.warnings # << >>

\* C9: whenever the call is made with strict set and validation produces at
\* least one warning, the report has status failed and a non-empty errors list.
C9_StrictWarningsFail ==
  last.called /\ last.doc.parses /\ last.strict /\ ProducedWarning(last) =>
    /\ last.kind = "report"
    /\ last.report.status = "failed"
    /\ last.report.errors # << >>

---------------------------------------------------------------------------
(* C10 *)

\* C10: in non-strict mode a document whose only defects are of the warning
\* class is not reported as failed and has an empty errors list.
C10_WarningsDoNotFail ==
  last.called /\ ~last.strict /\ Sound(last.doc) /\ ~WarningFree(last.doc, registry) =>
    /\ last.kind = "report"
    /\ last.report.status # "failed"
    /\ last.report.errors = << >>

---------------------------------------------------------------------------
(* C11 *)

---------------------------------------------------------------------------
(* C12 *)

\* C12: the merged errors list of a report is the concatenation, in the order
\* base, dependency, semantic, naming, reference, endpoint, of the errors of
\* every section result, and likewise for warnings: nothing is dropped and
\* the order is that static order.
C12_MergedInSectionOrder ==
  last.kind = "report" /\ last.doc.parses =>
    /\ last.report.errors =
            last.basic.errors \o last.report.dependency_results.errors
         \o last.report.semantic_results.errors \o last.report.naming_results.errors
         \o last.report.reference_results.errors \o last.report.endpoint_results.errors
    /\ last.report.warnings =
            last.basic.warnings \o last.report.dependency_results.warnings
         \o last.report.semantic_results.warnings \o last.report.naming_results.warnings
         \o last.report.reference_results.warnings \o last.report.endpoint_results.warnings

\* a report whose errors come from the base validator and four sections and
\* whose warnings come from the base validator and the reference section
C12_Witness ==
  /\ last.kind = "report" /\ last.doc.parses
  /\ last.basic.errors # << >>
  /\ last.report.dependency_results.errors # << >>
  /\ last.report.semantic_results.errors # << >>
  /\ last.report.naming_results.errors # << >>
  /\ last.report.reference_results.errors # << >>
  /\ last.basic.warnings # << >>
  /\ last.report.reference_results.warnings # << >>

---------------------------------------------------------------------------
(* C13 *)

DependenciesWasCalled(l) == l.unit = "validate_dependencies"

ListDependsOn(a) == HasKey(a, "dependsOn") /\ a.dependsOn.isList

\* the edges from the artifact's node to the artifact of each declaration
DeclaredEdges(a) ==
  {<<NameOrUnknown(a), Get(a.dependsOn.items[i].artifact)>> :
     i \in {j \in 1..Len(a.dependsOn.items) : IsSome(a.dependsOn.items[j].artifact)}}

StopsTheLoop(dep) ==
  \/ dep.shape = "number"
  \/ dep.shape = "string" /\ Contains(dep.text, S_artifact)

\* the declared edges of the entries that stand before every such entry
ReachedEdges(a) ==
  {<<NameOrUnknown(a), Get(a.dependsOn.items[i].artifact)>> :
     i \in {j \in 1..Len(a.dependsOn.items) :
              /\ IsSome(a.dependsOn.items[j].artifact)
              /\ \A k \in 1..j : ~StopsTheLoop(a.dependsOn.items[k])}}

---------------------------------------------------------------------------
(* C14 *)

HasFieldError(errors, index, field) ==
  \E k \in 1..Len(errors) :
    /\ errors[k].code = "Dependency {index} missing required field: {field}"
    /\ errors[k].idx = index /\ errors[k].key = field

\* C14: for every declaration in dependsOn a missing artifact field and a
\* missing purpose field each produce a 'missing required field' error that
\* names the declaration's index and the field, and make validate_dependencies
\* return valid = false; a declaration with both fields produces no such error.
C14_MissingFieldsAreErrors ==
  DependenciesWasCalled(last) /\ ListDependsOn(last.doc) =>
    /\ ~last.dep.raised
    /\ \A i \in 1..Len(last.doc.dependsOn.items) :
         /\ HasFieldError(last.dep.result.errors, i - 1, "artifact")
              <=> ~IsSome(last.doc.dependsOn.items[i].artifact)
         /\ HasFieldError(last.dep.result.errors, i - 1, "purpose")
              <=> ~IsSome(last.doc.dependsOn.items[i].purpose)
    /\ ~DeclarationsComplete(last.doc) => ~last.dep.result.valid

---------------------------------------------------------------------------
(* C15 *)

SingleWasCalled(l) == l.unit = "_validate_single_dependency"

HasArgMessage(msgs, code, arg) ==
  \E k \in 1..Len(msgs) : msgs[k].code = code /\ msgs[k].arg = arg

\* the declaration names a target that the supplied registry does not hold
TargetMissing(dep, reg) == IsSome(dep.artifact) /\ reg # {} /\ Get(dep.artifact) \notin reg
\* the declaration carries a version that is not in the supported grammar
VersionOutsideGrammar(dep) ==
  IsSome(dep.version) /\ ~_is_valid_version_constraint(Get(dep.version))

\* C15: a dependency target absent from a supplied registry and a version
\* constraint outside the supported grammar are each recorded as a warning,
\* and in missing_dependencies or invalid_versions, and never make the result
\* invalid or add an error; without a registry there is no missing-dependency
\* warning at all.
C15_MissingTargetAndBadVersionWarn ==
  SingleWasCalled(last) =>
    /\ TargetMissing(last.single.dep, registry) <=>
         /\ IsSome(last.single.dep.artifact)
         /\ HasArgMessage(last.single.warnings,
                          "Dependency artifact not found in registry: {artifact_name}",
                          Get(last.single.dep.artifact))
    /\ TargetMissing(last.single.dep, registry) <=>
         /\ IsSome(last.single.dep.artifact)
         /\ last.single.missing_dependencies = <<Get(last.single.dep.artifact)>>
    /\ VersionOutsideGrammar(last.single.dep) <=>
         /\ IsSome(last.single.dep.version)
         /\ HasArgMessage(last.single.warnings, "Invalid version constraint: {version}",
                          Get(last.single.dep.version))
    /\ VersionOutsideGrammar(last.single.dep) <=>
         /\ IsSome(last.single.dep.version)
         /\ last.single.invalid_versions = <<Get(last.single.dep.version)>>
    /\ IsSome(last.single.dep.artifact) /\ IsSome(last.single.dep.purpose) =>
         last.single.valid /\ last.single.errors = << >>
    /\ \A k \in 1..Len(last.single.errors) :
         last.single.errors[k].code \in {"Dependency {index} missing required field: {field}",
                                         "Dependency {index} must be an object"}
    /\ registry = {} =>
         last.single.missing_dependencies = << >> /\ Len(last.single.warnings) <= 1

\* a complete declaration with a missing target and a version outside the
\* grammar: two warnings and a valid result
C15_Witness ==
  /\ SingleWasCalled(last)
  /\ TargetMissing(last.single.dep, registry) /\ VersionOutsideGrammar(last.single.dep)
  /\ IsSome(last.single.dep.purpose)
  /\ Len(last.single.warnings) = 2
  /\ last.single.valid

---------------------------------------------------------------------------
(* C16 *)

\* the document carries a semanticType that is not one of the nine schemas
InvalidSemanticType(a) ==
  /\ a.parses /\ HasKey(a, "metadata") /\ IsSome(a.metadata.semanticType)
  /\ Get(a.metadata.semanticType) \notin DOMAIN semantic_type_schemas

\* validate_semantic_consistency returned the single 'invalid semantic type'
\* error and checked nothing further
OnlyInvalidTypeError(sem, a) ==
  /\ sem.present /\ ~sem.valid
  /\ sem.errors = <<MArg("Invalid semantic type: {semantic_type}",
                         Get(a.metadata.semanticType))>>
  /\ sem.warnings = << >>
  /\ sem.type_violations = << >> /\ sem.relationship_violations = << >>

\* C16: for a document whose semanticType is not in the enumeration,
\* validate_semantic_consistency returns valid = false with exactly one
\* 'invalid semantic type' error and performs no further semantic check,
\* while the other validators of the call still run.
C16_InvalidTypeStopsOnlySemantic ==
  last.called /\ InvalidSemanticType(last.doc) =>
    /\ OnlyInvalidTypeError(last.sem, last.doc)
    /\ {"basic", "dependency", "naming", "reference"} \subseteq last.ran

---------------------------------------------------------------------------
(* C17 *)

SemanticWasCalled(l) == l.unit = "validate_semantic_consistency"
\* the call handed back a semantic result (it did not end in an exception)
SemanticReturned(l) == SemanticWasCalled(l) /\ ~l.sem.raised

\* the semantic type of the document is one of the nine schemas
KnownSemanticType(a) ==
  /\ HasKey(a, "metadata") /\ IsSome(a.metadata.semanticType)
  /\ Get(a.metadata.semanticType) \in DOMAIN semantic_type_schemas

TypeSchema(a) == semantic_type_schemas[Get(a.metadata.semanticType)]

\* how many messages of the list have the code and name the field
CountKeyed(msgs, code, field) ==
  Cardinality({k \in 1..Len(msgs) : msgs[k].code = code /\ msgs[k].key = field})

\* the top-level fields a document can have or a schema can require
FieldNames == Range(KeyOrder) \cup UNION {Range(semantic_type_schemas[t].required_fields) :
                                            t \in DOMAIN semantic_type_schemas}

Permitted(a) ==
  Range(TypeSchema(a).required_fields) \cup TypeSchema(a).optional_fields
    \cup {"apiVersion", "kind", "metadata", "dependsOn"}

\* C17: for a semanticType of the enumeration the errors of the semantic
\* result that validate_semantic_consistency returns are exactly:
\* one 'missing required field' error for each required field of the type's
\* schema that the document lacks, and one 'unexpected field' error for each
\* top-level field of the document that is neither required, nor optional, nor
\* one of apiVersion, kind, metadata, dependsOn; the result is valid exactly
\* when there is no such error.
C17_SchemaErrorsExactly ==
  SemanticReturned(last) /\ KnownSemanticType(last.doc) =>
    /\ \A f \in FieldNames :
         /\ CountKeyed(last.sem.errors, "Missing required field for {semantic_type}: {field}", f)
              = IF f \in Range(TypeSchema(last.doc).required_fields) /\ ~HasKey(last.doc, f)
                THEN 1 ELSE 0
         /\ CountKeyed(last.sem.errors, "Unexpected field for {semantic_type}: {field}", f)
              = IF HasKey(last.doc, f) /\ f \notin Permitted(last.doc) THEN 1 ELSE 0
    /\ \A k \in 1..Len(last.sem.errors) :
         /\ last.sem.errors[k].code \in {"Missing required field for {semantic_type}: {field}",
                                         "Unexpected field for {semantic_type}: {field}"}
         /\ last.sem.errors[k].key \in FieldNames
         /\ last.sem.errors[k].arg = Get(last.doc.metadata.semanticType)
    /\ last.sem.valid <=> last.sem.errors = << >>

\* a document of a known type that lacks two required fields and has an
\* unexpected one
C17_Witness ==
  /\ SemanticWasCalled(last) /\ KnownSemanticType(last.doc)
  /\ Len(last.sem.errors) = 3
  /\ \E f \in last.doc.keys : f \notin Permitted(last.doc)
  /\ ~last.sem.valid

---------------------------------------------------------------------------
(* C18 *)

\* the positions of the declarations whose semanticType the artifact's type
\* is not allowed to depend on
DisallowedDeclarations(a) ==
  IF ~ListDependsOn(a) THEN {}
  ELSE {i \in 1..Len(a.dependsOn.items) :
          /\ IsSome(a.dependsOn.items[i].semanticType)
          /\ Get(a.dependsOn.items[i].semanticType) \notin TypeSchema(a).can_depend_on}

IsRelationshipMessage(m) == m.code = "{semantic_type} cannot depend on {dep_type}. Allowed: ..."

---------------------------------------------------------------------------
(* C19 *)

ReferencesWasCalled(l) == l.unit = "validate_references"

\* the document has its one reference field, spec.configRef
HasReference(a) == HasKey(a, "spec") /\ IsSome(a.spec.configRef)
TheReference(a) == [field |-> "spec.configRef", reference |-> Get(a.spec.configRef)]

\* the value is a string of the form namespace/name or namespace/name:X.Y.Z
WellFormedReference(v) ==
  IsStr(v) /\ (MatchNamespacedName(v) \/ MatchVersionedReference(v))

\* C19: a reference whose value is a string of the form namespace/name or
\* namespace/name:X.Y.Z is syntactically valid: not broken, no error.  Any
\* other string is broken, with an 'invalid reference format' error and
\* valid = false, and so is a value that is not a string.
C19_ReferenceFormatDecidesValidity ==
  ReferencesWasCalled(last) /\ HasReference(last.doc) =>
    IF WellFormedReference(Get(last.doc.spec.configRef))
    THEN /\ last.ref.valid /\ last.ref.errors = << >>
         /\ last.ref.broken_references = << >>
    ELSE /\ ~last.ref.valid
         /\ last.ref.broken_references = <<TheReference(last.doc)>>
         /\ last.ref.errors =
              IF IsStr(Get(last.doc.spec.configRef))
              THEN <<MArg("Invalid reference format: {ref_value}",
                          Get(last.doc.spec.configRef))>>
              ELSE <<MKey("Invalid reference format at {field}", "spec.configRef")>>

\* a value that is not a string has been reported as a broken reference
C19_Witness ==
  /\ ReferencesWasCalled(last) /\ HasReference(last.doc)
  /\ ~IsStr(Get(last.doc.spec.configRef))
  /\ ~last.ref.valid /\ Len(last.ref.errors) = 1
  /\ Len(last.ref.broken_references) = 1

---------------------------------------------------------------------------
(* C20 *)

\* the reference value without its :X.Y.Z suffix
RECURSIVE BeforeColon(_)
BeforeColon(v) ==
  IF v = << >> \/ Head(v) = ":" THEN << >> ELSE <<Head(v)>> \o BeforeColon(Tail(v))

\* the value names an artifact of the registry, with or without a version
RefersToRegistered(v, reg) ==
  \/ v \in reg
  \/ MatchVersionedReference(v) /\ BeforeColon(v) \in reg

HasMissingTargetWarning(ref, v) ==
  HasArgMessage(ref.warnings, "Reference target not found in registry: {ref_value}", v)

\* C20: with a registry, a reference to an artifact the registry does not hold
\* gets a 'missing target' warning and is listed in missing_targets, without
\* an error and without making the result invalid; a reference to a
\* registered artifact, the versioned form namespace/name:X.Y.Z included,
\* produces no missing-target finding; without a registry missing_targets is
\* always empty.
C20_MissingTargetsOnlyForUnregistered ==
  ReferencesWasCalled(last) /\ HasReference(last.doc)
    /\ IsStr(Get(last.doc.spec.configRef)) =>
      /\ registry = {} => last.ref.missing_targets = << >>
      /\ RefersToRegistered(Get(last.doc.spec.configRef), registry) =>
           /\ last.ref.missing_targets = << >>
           /\ ~HasMissingTargetWarning(last.ref, Get(last.doc.spec.configRef))
      /\ registry # {} /\ ~RefersToRegistered(Get(last.doc.spec.configRef), registry) =>
           /\ last.ref.missing_targets = <<TheReference(last.doc)>>
           /\ HasMissingTargetWarning(last.ref, Get(last.doc.spec.configRef))
           /\ last.ref.valid <=> WellFormedReference(Get(last.doc.spec.configRef))

---------------------------------------------------------------------------
(* C22 *)

\* C22: in every report of a parsed document, performance_metrics
\* .dependency_count is the number of declarations in dependsOn, 0 when
\* dependsOn is absent, and .reference_count is the number of references
\* found in the document, well-formed or not.
C22_MetricsCountDeclarationsAndReferences ==
  last.kind = "report" /\ last.doc.parses =>
    /\ ~HasKey(last.doc, "dependsOn") =>
         last.report.performance_metrics.dependency_count = 0
    /\ ListDependsOn(last.doc) =>
         last.report.performance_metrics.dependency_count = Len(last.doc.dependsOn.items)
    /\ last.report.performance_metrics.reference_count
         = IF HasReference(last.doc) THEN 1 ELSE 0

---------------------------------------------------------------------------
(* C23 *)

StructureWasCalled(l) == l.unit = "_validate_structure"

\* C23: the structural check reports exactly one error naming the field for
\* each of apiVersion, kind, metadata that the document lacks, and, when
\* metadata is present, exactly one error naming the field for each of name,
\* version, semanticType that metadata lacks; it reports nothing else.
C23_OneErrorPerMissingField ==
  StructureWasCalled(last) =>
    /\ \A f \in {"apiVersion", "kind", "metadata"} :
         CountKeyed(last.basic.errors, "Missing required field: {field}", f)
           = IF HasKey(last.doc, f) THEN 0 ELSE 1
    /\ CountKeyed(last.basic.errors, "Missing required metadata field: {field}", "name")
         = IF HasKey(last.doc, "metadata") /\ ~IsSome(last.doc.metadata.name) THEN 1 ELSE 0
    /\ CountKeyed(last.basic.errors, "Missing required metadata field: {field}", "version")
         = IF HasKey(last.doc, "metadata") /\ ~IsSome(last.doc.metadata.version) THEN 1 ELSE 0
    /\ CountKeyed(last.basic.errors, "Missing required metadata field: {field}", "semanticType")
         = IF HasKey(last.doc, "metadata") /\ ~IsSome(last.doc.metadata.semanticType)
           THEN 1 ELSE 0
    /\ Len(last.basic.errors)
         = Cardinality({"apiVersion", "kind", "metadata"} \ last.doc.keys)
           + (IF HasKey(last.doc, "metadata")
              THEN   (IF IsSome(last.doc.metadata.name) THEN 0 ELSE 1)
                   + (IF IsSome(last.doc.metadata.version) THEN 0 ELSE 1)
                   + (IF IsSome(last.doc.metadata.semanticType) THEN 0 ELSE 1)
              ELSE 0)

\* a document without kind whose metadata lacks version and semanticType:
\* three errors
C23_Witness ==
  /\ StructureWasCalled(last)
  /\ ~HasKey(last.doc, "kind") /\ HasKey(last.doc, "metadata") /\ HasKey(last.doc, "apiVersion")
  /\ IsSome(last.doc.metadata.name)
  /\ ~IsSome(last.doc.metadata.version) /\ ~IsSome(last.doc.metadata.semanticType)
  /\ Len(last.basic.errors) = 3

---------------------------------------------------------------------------
(* C24 *)

NamingWasCalled(l) == l.unit = "validate_naming_specifications"

HasNamingRegistry(a) == HasKey(a, "metadata") /\ IsSome(a.metadata.namingRegistry)
TheNamespace(a) == NamespaceOf(Get(a.metadata.namingRegistry))

\* the namespace matches the pattern of one of the configured prefixes
MatchesAPrefix(namespace) ==
  \E i \in 1..Len(namespace_formats) : MatchNamespace(namespace, namespace_formats[i].prefix)

IsVerified(a) ==
  /\ IsSome(Get(a.metadata.namingRegistry).verificationStatus)
  /\ Get(Get(a.metadata.namingRegistry).verificationStatus) = S_verified

HasCode(msgs, code) == \E k \in 1..Len(msgs) : msgs[k].code = code

VerificationWarned(msgs) ==
  \/ HasCode(msgs, "Namespace {namespace} requires verification")
  \/ HasCode(msgs, "Namespace {namespace} is not verified")

\* C24: for a namespace that matches none of the configured prefix patterns
\* the naming validator returns valid = false with an 'invalid namespace
\* format' error; for a namespace that matches a verification-required prefix
\* it returns a warning and no such error when the verification status is
\* absent or not 'verified', and neither when the status is 'verified'.
C24_NamespaceCheck ==
  NamingWasCalled(last) /\ HasNamingRegistry(last.doc) =>
    /\ ~last.nam.raised
    /\ IF ~MatchesAPrefix(TheNamespace(last.doc))
       THEN /\ ~last.nam.result.valid
            /\ HasArgMessage(last.nam.result.errors, "Invalid namespace format: {namespace}",
                             TheNamespace(last.doc))
       ELSE /\ ~HasCode(last.nam.result.errors, "Invalid namespace format: {namespace}")
            /\ VerificationWarned(last.nam.result.warnings) <=> ~IsVerified(last.doc)
            /\ last.nam.result.namespace_compliance.valid
                 <=> Get(last.doc.metadata.namingRegistry).format = Some(S_reverse_DNS)

---------------------------------------------------------------------------
(* C25 *)

HasName(a) == HasKey(a, "metadata") /\ IsSome(a.metadata.name)

\* lowercase alphanumerics and hyphens, between 3 and 50 characters
WellFormedName(name) ==
  /\ Len(name) >= 3 /\ Len(name) <= 50
  /\ \A i \in 1..Len(name) : name[i] \in Lower \cup Digit \cup {"-"}

\* C25: for every artifact name the naming validator returns a result and
\* never raises: no error when the name consists of lowercase alphanumerics
\* and hyphens and is 3 to 50 characters long, an error otherwise, and for a
\* reserved word a 'reserved word' warning that by itself leaves valid = true.
C25_ArtifactNameChecked ==
  NamingWasCalled(last) /\ HasName(last.doc) =>
    /\ ~last.nam.raised
    /\ last.nam.result.artifact_name_compliance.present
    /\ last.nam.result.artifact_name_compliance.errors = << >>
         <=> WellFormedName(Get(last.doc.metadata.name))
    /\ last.nam.result.artifact_name_compliance.valid
         <=> WellFormedName(Get(last.doc.metadata.name))
    /\ HasCode(last.nam.result.artifact_name_compliance.warnings,
               "Artifact name uses reserved word: {name}")
         <=> Get(last.doc.metadata.name) \in reserved_words

---------------------------------------------------------------------------
(* C26 *)

HasVersion(a) == HasKey(a, "metadata") /\ IsSome(a.metadata.version)

\* C26: the naming validator classifies every version string into exactly one
\* outcome: an exact semantic version is valid without a warning, a
\* prerelease-suffixed one valid with the 'using prerelease' warning, a
\* build-metadata-suffixed one valid with the 'using build version' warning,
\* and any other string invalid with an 'invalid version format' error.
C26_VersionClassified ==
  NamingWasCalled(last) /\ HasVersion(last.doc) =>
    /\ ~last.nam.raised
    /\ last.nam.result.version_compliance =
         IF MatchSemver(Get(last.doc.metadata.version))
         THEN Sub(TRUE, << >>, << >>)
         ELSE IF MatchSuffixed(Get(last.doc.metadata.version), "-")
         THEN Sub(TRUE, << >>, <<M0("Using prerelease version")>>)
         ELSE IF MatchSuffixed(Get(last.doc.metadata.version), "+")
         THEN Sub(TRUE, << >>, <<M0("Using build version with metadata")>>)
         ELSE Sub(FALSE, <<MArg("Invalid version format: {version}",
                                Get(last.doc.metadata.version))>>, << >>)

---------------------------------------------------------------------------
(* C27 *)

\* the type names the SemanticTypeValidator accepts
ExtendedTypes == DOMAIN semantic_type_schemas

\* C27: the base validator's semantic-type check and SemanticTypeValidator
\* accept the same type names, so that no document's semanticType is accepted
\* by one and rejected as invalid by the other, and every type named in a
\* can_depend_on set is a member of the enumeration.
C27_OneClosedEnumeration ==
  last.called /\ "semantic" \in last.ran =>
    /\ \A t \in ExtendedTypes : semantic_type_schemas[t].can_depend_on \subseteq ExtendedTypes
    /\ HasKey(last.doc, "metadata") /\ IsSome(last.doc.metadata.semanticType) =>
         (HasCode(last.basic.errors, "Invalid semanticType: '{semantic_type}'. Must be one of: ...")
            <=> HasCode(last.sem.errors, "Invalid semantic type: {semantic_type}"))

---------------------------------------------------------------------------
(* C28 *)

\* C28: once the graph of a DependencyValidator holds a cycle, every later
\* validate_dependencies call for an artifact with a list-valued dependsOn
\* returns valid = false and reports the cycle, whether or not the artifact
\* is on it.
C28_CycleReportedEverAfter ==
  DependenciesWasCalled(last) /\ ListDependsOn(last.doc) /\ HasCycle(graph) =>
    /\ ~last.dep.raised
    /\ ~last.dep.result.valid
    /\ last.dep.result.circular_dependencies # << >>

---------------------------------------------------------------------------
(* C21 *)

ExtractWasCalled(l) == l.unit = "_extract_references"

\* every key ending in Ref or Reference whose value is a string, anywhere in
\* the tree, with the path that leads to it
RECURSIVE StringReferences(_, _)
StringReferences(node, path) ==
  IF node.kind = "map"
  THEN UNION {   (IF IsReferenceKey(node.entries[i].key) /\ node.entries[i].value.kind = "str"
                  THEN {[field |-> KeyPath(path, node.entries[i].key),
                         reference |-> node.entries[i].value]}
                  ELSE {})
            \cup StringReferences(node.entries[i].value, KeyPath(path, node.entries[i].key)) :
               i \in 1..Len(node.entries)}
  ELSE IF node.kind = "list"
  THEN UNION {StringReferences(node.items[i], IndexPath(path, i - 1)) :
                i \in 1..Len(node.items)}
  ELSE {}

TimesFound(found, r) == Cardinality({k \in 1..Len(found) : found[k] = r})

\* C21: reference extraction walks the whole document: every map key ending
\* in Ref or Reference whose value is a string, at any depth, under any
\* nesting of maps and sequences and also below another reference-named key,
\* is reported exactly once, with the dotted and indexed path where it is.
C21_EveryStringReferenceOnce ==
  ExtractWasCalled(last) =>
    \A r \in StringReferences(last.tree, << >>) : TimesFound(last.found, r) = 1

\* ------------------------------------------------------------------ C29
\* C29: a validate_dependencies call removes no node and no edge; for an
\* artifact whose dependsOn is a list it adds the pair (name or 'unknown',
\* target) of every declaration that carries an artifact field, whatever else
\* the list holds, so that the edge set is always exactly the declared pairs
\* of the artifacts validated so far; a call for an artifact whose dependsOn
\* is absent or not a list leaves the graph unchanged.
C29_EdgesAreAllDeclaredPairs ==
  [][ DependenciesWasCalled(last') =>
        /\ graph.nodes \subseteq graph'.nodes
        /\ graph.edges \subseteq graph'.edges
        /\ IF ListDependsOn(last'.doc)
           THEN graph'.edges = graph.edges \cup DeclaredEdges(last'.doc)
           ELSE graph' = graph ]_vars

\* ------------------------------------------------------------------ C30
NonObjects(a) ==
  IF ~ListDependsOn(a) THEN {}
  ELSE {i \in 1..Len(a.dependsOn.items) : a.dependsOn.items[i].shape # "object"}

HasIndexError(errors, code, index) ==
  \E k \in 1..Len(errors) : errors[k].code = code /\ errors[k].idx = index

\* C30: an entry of dependsOn that is not an object is reported as
\* 'Dependency i must be an object' in a result with valid=false and adds no
\* edge, and neither validate_dependencies nor the semantic relationship
\* check is kept by it from processing the other entries and returning a
\* result.
C30_NonObjectEntryIsReportedOnly ==
  /\ DependenciesWasCalled(last) /\ NonObjects(last.doc) # {} =>
       /\ last.dep.exc # "TypeError"
       /\ ~last.dep.result.valid
       /\ \A i \in NonObjects(last.doc) :
            HasIndexError(last.dep.result.errors, "Dependency {index} must be an object",
                          i - 1)
       /\ \A i \in 1..Len(last.doc.dependsOn.items) :
            IsSome(last.doc.dependsOn.items[i].artifact) =>
              <<NameOrUnknown(last.doc), Get(last.doc.dependsOn.items[i].artifact)>>
                \in graph.edges
  /\ SemanticWasCalled(last) /\ KnownSemanticType(last.doc)
       /\ NonObjects(last.doc) # {} =>
       /\ ~last.sem.raised
       /\ Len(last.sem.relationship_violations)
            = Cardinality(DisallowedDeclarations(last.doc))

=============================================================================
